---- MODULE Spec2Model ----
(***************************************************************************)
(* Book map page (pages/map.js and its earlier revisions): the graph       *)
(* builder, the facet filter and the state they work on.                   *)
(*                                                                         *)
(* Strings are sequences of tokens.  A token is one character, except      *)
(* that each Korean keyword of normalizeDivision is one token and each     *)
(* node type is one token:                                                 *)
(*   "author" = jeoja, "translator" = yeokja, "category", "subject" =      *)
(*   juje, "genre", "level" = dangye, "division" = gubun, "ALL" = jeonche. *)
(* Absent stands for undefined / null.                                     *)
(*                                                                         *)
(* The repository holds three revisions of the page; `variant` says which  *)
(* one runs:  "part_001" (src/unnamed/part_001), "map_js"                  *)
(* (src/pages/map.js, the same code as src/unnamed/part_002) and           *)
(* "part_000" (src/unnamed/part_000).                                      *)
(***************************************************************************)
EXTENDS Integers, Sequences, FiniteSets

VARIABLES variant, loading, books, base, tab, chip, graph, facets, call,
          size, engine, timers, drag, log, hover, frame, tap, later, load

vars == <<variant, loading, books, base, tab, chip, graph, facets, call,
          size, engine, timers, drag, log, hover, frame, tap, later, load>>

\* The viewport, the force engine, its timers, the drag in progress and the
\* record of the latest engine calls.
engineVars == <<size, engine, timers, drag, log>>

\* The hovered node, the frame being drawn and the tap record.
viewVars == <<hover, frame, tap>>

\* The timeouts of the viewport effects and the data load.
sideVars == <<later, load>>

\* What the data path of the page does not read or write.
offPage == <<call, engineVars, viewVars, sideVars>>

\* ---------------------------------------------------------------- bounds
MaxBooks == 2

\* ------------------------------------------------------------- constants
Variants == {"part_001", "map_js", "part_000"}

Absent == <<"undefined">>

TYPES == <<"category", "level", "author", "translator", "subject", "genre", "division">>

TypeSet == {TYPES[k] : k \in 1..Len(TYPES)}

ALL == "ALL"

\* `call` records the latest call of a helper function made on its own:
\* which function, its argument and what it returned.
NoCall == [fn |-> "none", arg |-> <<>>, result |-> <<>>]

\* ----------------------------------------------------------- JS helpers
\* JS truthiness of a string-or-undefined value.
Truthy(v) == v # Absent /\ v # <<>>

IsSpace(c) == c = " "

RECURSIVE TrimStart(_)
TrimStart(s) ==
    IF s # <<>> /\ IsSpace(Head(s)) THEN TrimStart(Tail(s)) ELSE s

RECURSIVE TrimEnd(_)
TrimEnd(s) ==
    IF s # <<>> /\ IsSpace(s[Len(s)]) THEN TrimEnd(SubSeq(s, 1, Len(s) - 1)) ELSE s

\* String.prototype.trim
Trim(s) == TrimEnd(TrimStart(s))

\* const norm = (v) => String(v ?? "").trim();
norm(v) == Trim(IF v = Absent THEN <<>> ELSE v)

\* The character class of splitList's replace: / | and the six full-width
\* or dot delimiters, written here as ASCII tokens.
Delimiters == {"/", "|", "middot", "bullet", "fwcomma", "ideocomma", "katadot", "fwslash"}

\* .replace(/[...]/g, ",")
ReplaceDelims(s) == [k \in 1..Len(s) |-> IF s[k] \in Delimiters THEN "," ELSE s[k]]

\* .split(","): the pieces between commas, empty pieces kept.
RECURSIVE SplitComma(_, _)
SplitComma(s, cur) ==
    IF s = <<>> THEN <<cur>>
    ELSE IF Head(s) = "," THEN <<cur>> \o SplitComma(Tail(s), <<>>)
    ELSE SplitComma(Tail(s), Append(cur, Head(s)))

\* .filter(Boolean) on a list of strings
RECURSIVE FilterBoolean(_)
FilterBoolean(ts) ==
    IF ts = <<>> THEN <<>>
    ELSE IF Head(ts) # <<>> THEN <<Head(ts)>> \o FilterBoolean(Tail(ts))
    ELSE FilterBoolean(Tail(ts))

\* splitList without its .filter(Boolean): empty tokens are kept.
splitListKeepEmpty(s) ==
    IF ~Truthy(s) THEN <<>>
    ELSE LET parts == SplitComma(ReplaceDelims(s), <<>>)
         IN  [k \in 1..Len(parts) |-> Trim(parts[k])]

splitList(s) ==
    IF ~Truthy(s) THEN <<>>
    ELSE LET parts == SplitComma(ReplaceDelims(s), <<>>)
         IN  FilterBoolean([k \in 1..Len(parts) |-> Trim(parts[k])])

\* s.includes(keyword), each keyword one token
Includes(s, kw) == \E k \in 1..Len(s) : s[k] = kw

\* normalizeDivision with the domestic rule tried before the translation rule.
normalizeDivisionDomesticFirst(v) ==
    LET s == norm(v)
    IN  IF s = <<>> THEN Absent
        ELSE IF Includes(s, "gungnae") THEN <<"gungnae", "seo">>
        ELSE IF Includes(s, "beonyeok") THEN <<"beonyeok", "seo">>
        ELSE IF Includes(s, "wonseo") THEN <<"wonseo">>
        ELSE IF Includes(s, "gugoe") \/ Includes(s, "haeoe") THEN <<"gugoe", "seo">>
        ELSE s

normalizeDivision(v) ==
    LET s == norm(v)
    IN  IF s = <<>> THEN Absent
        ELSE IF Includes(s, "beonyeok") THEN <<"beonyeok", "seo">>
        ELSE IF Includes(s, "wonseo") THEN <<"wonseo">>
        ELSE IF Includes(s, "gugoe") \/ Includes(s, "haeoe") THEN <<"gugoe", "seo">>
        ELSE IF Includes(s, "gungnae") THEN <<"gungnae", "seo">>
        ELSE s

\* ---------------------------------------------------------- graph builder
\* A link endpoint: a plain string id, or (once the force engine has
\* resolved the link) a reference to the node object.
StrEnd(id) == [ref |-> FALSE, id |-> id]

RefEnd(n) == [ref |-> TRUE, node |-> n]

\* `${type}:${value}`
MakeId(type, value) == <<type, ":">> \o value

\* { id, label, type, ...extra }; image and publisher are copied exactly as
\* author is and are left out.
MakeNode(id, label, type, bookId, author) ==
    [id |-> id, label |-> label, type |-> type, bookId |-> bookId, author |-> author]

byIdHas(nodes, id) == \E k \in 1..Len(nodes) : nodes[k].id = id

\* addNode without the byId.has(id) test: every reference pushes a node.
addNodeAlways(nodes, id, label, type, bookId, author) ==
    Append(nodes, MakeNode(id, label, type, bookId, author))

\* addNode that lets the last reference overwrite the node it finds.
addNodeLastWins(nodes, id, label, type, bookId, author) ==
    IF byIdHas(nodes, id)
    THEN [k \in 1..Len(nodes) |->
            IF nodes[k].id = id THEN MakeNode(id, label, type, bookId, author) ELSE nodes[k]]
    ELSE Append(nodes, MakeNode(id, label, type, bookId, author))

addNode(nodes, id, label, type, bookId, author) ==
    IF byIdHas(nodes, id) THEN nodes
    ELSE Append(nodes, MakeNode(id, label, type, bookId, author))

\* addLink with its endpoints the wrong way round.
addLinkReversed(links, s, t, type) ==
    Append(links, [source |-> StrEnd(t), target |-> StrEnd(s), type |-> type])

\* addLink that drops an edge the list already holds.
addLinkOnce(links, s, t, type) ==
    IF \E k \in 1..Len(links) :
          links[k] = [source |-> StrEnd(s), target |-> StrEnd(t), type |-> type]
    THEN links
    ELSE Append(links, [source |-> StrEnd(s), target |-> StrEnd(t), type |-> type])

addLink(links, s, t, type) ==
    Append(links, [source |-> StrEnd(s), target |-> StrEnd(t), type |-> type])

EmptyGraph == [nodes |-> <<>>, links |-> <<>>]

\* if (!b?.id || !b?.title) continue;
AcceptsIdAndTitle(b) == Truthy(b.id) /\ Truthy(b.title)

\* if (!book?.id) continue;
AcceptsId(b) == Truthy(b.id)

\* The loop body starts without a guard.
AcceptsAny(b) == TRUE

\* The guard at the top of the loop body, per revision.
Accepts(v, b) ==
    CASE v = "part_001" -> AcceptsIdAndTitle(b)
      [] v = "map_js"   -> AcceptsId(b)
      [] v = "part_000" -> AcceptsAny(b)

\* b.translator || b["yeokja"]
TranslatorOr(b) == IF Truthy(b.translator) THEN b.translator ELSE b.yeokja

\* b.translator ?? b["yeokja"]
TranslatorNullish(b) == IF b.translator # Absent THEN b.translator ELSE b.yeokja

TranslatorOf(v, b) == IF v = "part_000" THEN TranslatorNullish(b) ELSE TranslatorOr(b)

\* <<value, type>> for each token of a multi-valued field
TokenPairs(s, type) ==
    LET ts == splitList(s) IN [k \in 1..Len(ts) |-> <<ts[k], type>>]

\* The four single-valued attributes, those with an empty value dropped.
RECURSIVE DropEmpty(_)
DropEmpty(ps) ==
    IF ps = <<>> THEN <<>>
    ELSE IF Truthy(Head(ps)[1]) THEN <<Head(ps)>> \o DropEmpty(Tail(ps))
    ELSE DropEmpty(Tail(ps))

AuthorPairs(v, b) ==
    DropEmpty(<< <<norm(b.author), "author">>,
                 <<norm(TranslatorOf(v, b)), "translator">> >>)

LevelPairs(b) ==
    DropEmpty(<< <<norm(b.level), "level">>,
                 <<normalizeDivision(b.division), "division">> >>)

MultiPairs(b) ==
    TokenPairs(b.category, "category") \o TokenPairs(b.subject, "subject")
        \o TokenPairs(b.genre, "genre")

\* The <<value, type>> pairs of one record in the order the revision visits
\* them (part_000 handles level and division last).
AttrPairs(v, b) ==
    IF v = "part_000"
    THEN AuthorPairs(v, b) \o MultiPairs(b) \o LevelPairs(b)
    ELSE AuthorPairs(v, b) \o LevelPairs(b) \o MultiPairs(b)

\* addNode(id, v, t); addLink(bookId, id, t) for each pair
RECURSIVE AddPairs(_, _, _)
AddPairs(g, bookId, ps) ==
    IF ps = <<>> THEN g
    ELSE LET v  == Head(ps)[1]
             t  == Head(ps)[2]
             id == MakeId(t, v)
         IN  AddPairs([nodes |-> addNode(g.nodes, id, v, t, Absent, Absent),
                       links |-> addLink(g.links, bookId, id, t)],
                      bookId, Tail(ps))

\* One turn of the loop of buildGraph.
BuildRecord(v, g, b) ==
    IF ~Accepts(v, b) THEN g
    ELSE LET bookId == MakeId("book", b.id)
             g1 == [g EXCEPT !.nodes = addNode(g.nodes, bookId, b.title, "book", b.id, b.author)]
         IN  AddPairs(g1, bookId, AttrPairs(v, b))

RECURSIVE BuildFrom(_, _, _)
BuildFrom(v, g, bs) ==
    IF bs = <<>> THEN g ELSE BuildFrom(v, BuildRecord(v, g, Head(bs)), Tail(bs))

buildGraph(v, bs) == BuildFrom(v, EmptyGraph, bs)

\* ------------------------------------------------------------ the facets
\* a.localeCompare(b, "ko", { numeric: true }) on token strings.  The
\* collator compares primary weights first (white space before digits
\* before Latin letters before Hangul; with `numeric`, a run of digits
\* counts as the number it writes), then case (lower before upper); two
\* strings it cannot tell apart, such as the composed and the decomposed
\* spelling of one syllable ("ga", "ga_nfd"), compare as 0.
Digits == {"1", "2"}

DigitValue(c) == IF c = "1" THEN 1 ELSE 2

UpperCase == {"A", "B", "C", "T", "U", "Z"}

PrimaryWeight(c) ==
    CASE c \in {"a", "A"} -> 1
      [] c \in {"b", "B"} -> 2
      [] c = "C" -> 3
      [] c = "T" -> 4
      [] c = "U" -> 5
      [] c = "x" -> 6
      [] c = "Z" -> 7
      [] c \in {"ga", "ga_nfd"} -> 10
      [] c = "gungnae" -> 11
      [] c = "gugoe" -> 12
      [] c = "beonyeok" -> 13
      [] c = "seo" -> 14
      [] c = "wonseo" -> 15
      [] c = "haeoe" -> 16
      [] OTHER -> 0

\* The length of the run of digits s starts with.
RECURSIVE DigitRun(_)
DigitRun(s) ==
    IF s # <<>> /\ Head(s) \in Digits THEN 1 + DigitRun(Tail(s)) ELSE 0

RECURSIVE NumberOf(_, _)
NumberOf(s, acc) ==
    IF s = <<>> THEN acc ELSE NumberOf(Tail(s), 10 * acc + DigitValue(Head(s)))

\* The primary key of a string: one <<class, weight>> item per character,
\* or per run of digits when the collator is numeric.
RECURSIVE PrimaryKey(_, _)
PrimaryKey(s, numeric) ==
    IF s = <<>> THEN <<>>
    ELSE IF Head(s) \in Digits
    THEN LET n == IF numeric THEN DigitRun(s) ELSE 1
         IN  << <<2, NumberOf(SubSeq(s, 1, n), 0)>> >>
                 \o PrimaryKey(SubSeq(s, n + 1, Len(s)), numeric)
    ELSE << <<IF IsSpace(Head(s)) THEN 1 ELSE 3, PrimaryWeight(Head(s))>> >>
             \o PrimaryKey(Tail(s), numeric)

CaseKey(s) == [k \in 1..Len(s) |-> <<0, IF s[k] \in UpperCase THEN 1 ELSE 0>>]

\* -1, 0 or 1: the lexicographic order of two keys.
RECURSIVE CompareKeys(_, _)
CompareKeys(x, y) ==
    IF x = <<>> THEN (IF y = <<>> THEN 0 ELSE -1)
    ELSE IF y = <<>> THEN 1
    ELSE IF Head(x)[1] < Head(y)[1] THEN -1
    ELSE IF Head(x)[1] > Head(y)[1] THEN 1
    ELSE IF Head(x)[2] < Head(y)[2] THEN -1
    ELSE IF Head(x)[2] > Head(y)[2] THEN 1
    ELSE CompareKeys(Tail(x), Tail(y))

localeCompare(a, b, numeric) ==
    LET p == CompareKeys(PrimaryKey(a, numeric), PrimaryKey(b, numeric))
    IN  IF p # 0 THEN p ELSE CompareKeys(CaseKey(a), CaseKey(b))

\* The sort of part_000 has no `numeric` option.
NumericSort(v) == v # "part_000"

\* The place of x in an ascending list: behind every element that does not
\* sort after it (Array.prototype.sort is stable).
RECURSIVE InsertSorted(_, _, _)
InsertSorted(out, x, numeric) ==
    IF out = <<>> THEN <<x>>
    ELSE IF localeCompare(Head(out), x, numeric) <= 0
    THEN <<Head(out)>> \o InsertSorted(Tail(out), x, numeric)
    ELSE <<x>> \o out

\* The sort that returns the values in the order the Set holds them.
sortNothing(vs, numeric) == vs

\* const sort = (s) => [...s].sort((a, b) => a.localeCompare(b, "ko", ...))
RECURSIVE sort(_, _)
sort(vs, numeric) ==
    IF vs = <<>> THEN <<>>
    ELSE InsertSorted(sort(SubSeq(vs, 1, Len(vs) - 1), numeric), vs[Len(vs)], numeric)

\* Set.prototype.add for each value of a list, insertion order kept.
RECURSIVE SetAddAll(_, _)
SetAddAll(set, vs) ==
    IF vs = <<>> THEN set
    ELSE SetAddAll(IF \E k \in 1..Len(set) : set[k] = Head(vs) THEN set
                   ELSE Append(set, Head(vs)),
                   Tail(vs))

\* The values one record adds to the Set of a type.
\* The facet values of a record with the translator read as
\* b.translator ?? b["yeokja"] whatever the revision.
FacetValuesNullishTranslator(v, b, t) ==
    CASE t = "category"   -> splitList(b.category)
      [] t = "subject"    -> splitList(b.subject)
      [] t = "genre"      -> splitList(b.genre)
      [] t = "level"      -> IF Truthy(norm(b.level)) THEN <<norm(b.level)>> ELSE <<>>
      [] t = "translator" -> IF Truthy(norm(TranslatorNullish(b)))
                             THEN <<norm(TranslatorNullish(b))>> ELSE <<>>
      [] t = "author"     -> IF Truthy(norm(b.author)) THEN <<norm(b.author)>> ELSE <<>>
      [] t = "division"   -> IF Truthy(normalizeDivision(b.division))
                             THEN <<normalizeDivision(b.division)>> ELSE <<>>

FacetValues(v, b, t) ==
    CASE t = "category"   -> splitList(b.category)
      [] t = "subject"    -> splitList(b.subject)
      [] t = "genre"      -> splitList(b.genre)
      [] t = "level"      -> IF Truthy(norm(b.level)) THEN <<norm(b.level)>> ELSE <<>>
      [] t = "translator" -> IF Truthy(norm(TranslatorOf(v, b)))
                             THEN <<norm(TranslatorOf(v, b))>> ELSE <<>>
      [] t = "author"     -> IF Truthy(norm(b.author)) THEN <<norm(b.author)>> ELSE <<>>
      [] t = "division"   -> IF Truthy(normalizeDivision(b.division))
                             THEN <<normalizeDivision(b.division)>> ELSE <<>>

RECURSIVE FacetSet(_, _, _, _)
FacetSet(v, set, bs, t) ==
    IF bs = <<>> THEN set
    ELSE FacetSet(v, SetAddAll(set, FacetValues(v, Head(bs), t)), Tail(bs), t)

\* extractFacetList(books) / extractFacets(books)
extractFacetList(v, bs) ==
    [t \in TypeSet |-> sort(FacetSet(v, <<>>, bs, t), NumericSort(v))]

\* ---------------------------------------------------------- filter engine
\* ends(l): both endpoints as string ids
\* ends without the typeof test: an object endpoint yields no id.
EndIdOfStringOnly(e) == IF e.ref THEN <<>> ELSE e.id

EndId(e) == IF e.ref THEN e.node.id ELSE e.id

ends(l) == <<EndId(l.source), EndId(l.target)>>

\* The copy of a link without the spread of its other fields.
NormalizeLinkNoSpread(l) ==
    [source |-> StrEnd(ends(l)[1]), target |-> StrEnd(ends(l)[2]), type |-> "undefined"]

\* { ...l, source: s, target: t }
NormalizeLink(l) ==
    [l EXCEPT !.source = StrEnd(ends(l)[1]), !.target = StrEnd(ends(l)[2])]

MapNormalize(ls) == [k \in 1..Len(ls) |-> NormalizeLink(ls[k])]

\* The type filter that keeps every link.
FilterByTypeKeepAll(ls, type) == ls

\* base.links.filter((l) => l.type === dTab)
RECURSIVE FilterByType(_, _)
FilterByType(ls, type) ==
    IF ls = <<>> THEN <<>>
    ELSE (IF Head(ls).type = type THEN <<Head(ls)>> ELSE <<>>)
             \o FilterByType(Tail(ls), type)

\* The chip filter that forgets to compare the endpoints with the chip id.
FilterByTypeAndIdAnyId(ls, type, id) == FilterByType(ls, type)

\* base.links.filter((l) => l.type === dTab && (s === id || t === id))
RECURSIVE FilterByTypeAndId(_, _, _)
FilterByTypeAndId(ls, type, id) ==
    IF ls = <<>> THEN <<>>
    ELSE LET l == Head(ls)
             keep == l.type = type /\ (ends(l)[1] = id \/ ends(l)[2] = id)
         IN  (IF keep THEN <<l>> ELSE <<>>) \o FilterByTypeAndId(Tail(ls), type, id)

\* The used-id set that collects the sources only.
UsedIdsSourcesOnly(keep, seed) ==
    seed \cup {ends(keep[k])[1] : k \in 1..Len(keep)}

UsedIds(keep, seed) ==
    seed \cup {ends(keep[k])[1] : k \in 1..Len(keep)}
         \cup {ends(keep[k])[2] : k \in 1..Len(keep)}

\* base.nodes.filter(...) that keeps every node.
FilterNodesKeepAll(ns, used) == ns

RECURSIVE FilterNodes(_, _)
FilterNodes(ns, used) ==
    IF ns = <<>> THEN <<>>
    ELSE (IF Head(ns).id \in used THEN <<Head(ns)>> ELSE <<>>)
             \o FilterNodes(Tail(ns), used)

\* The memoised `graph`: the filter applied to g for the selection (t, c).
filter(v, g, t, c) ==
    IF v # "part_000" /\ g.nodes = <<>> THEN EmptyGraph
    ELSE IF t = ALL THEN [nodes |-> g.nodes, links |-> MapNormalize(g.links)]
    ELSE IF ~Truthy(c)
    THEN LET keep == FilterByType(g.links, t)
         IN  [nodes |-> FilterNodes(g.nodes, UsedIds(keep, {})),
              links |-> MapNormalize(keep)]
    ELSE LET id   == MakeId(t, c)
             keep == FilterByTypeAndId(g.links, t, id)
         IN  [nodes |-> FilterNodes(g.nodes, UsedIds(keep, {id})),
              links |-> MapNormalize(keep)]

\* ------------------------------------------------------------ the inputs
Rec(id, title, author, translator, yeokja, level, division, category, subject, genre) ==
    [id |-> id, title |-> title, author |-> author, translator |-> translator,
     yeokja |-> yeokja, level |-> level, division |-> division,
     category |-> category, subject |-> subject, genre |-> genre]

\* (id, title) of a record: well-formed, twice the same id, no id, no title.
Headers ==
    { << <<"1">>, <<"T">> >>, << <<"1">>, <<"U">> >>, << <<"2">>, <<"T">> >>,
      << Absent, <<"T">> >>, << <<"1">>, Absent >> }

\* The attribute fields of a record: none; a plain author; padded and blank
\* values, a blank translator that hides the other key, fields of blank
\* tokens only; an empty translator beside the other key, a division with
\* two keywords; delimiters, padding and a repeated token.
Profiles ==
    { Rec(Absent, Absent, Absent, Absent, Absent, Absent, Absent, Absent, Absent, Absent),
      Rec(Absent, Absent, <<"A">>, Absent, Absent, Absent, Absent, Absent, Absent, Absent),
      Rec(Absent, Absent, <<" ", "A", " ">>, <<" ">>, <<"C">>, <<" ">>, <<" ">>,
          <<" ", ",", "|">>, Absent, <<"a", "middot", "b">>),
      Rec(Absent, Absent, <<"B">>, <<>>, <<"C">>, <<"1">>, <<"gungnae", " ", "beonyeok">>,
          Absent, Absent, Absent),
      Rec(Absent, Absent, Absent, <<"B">>, Absent, Absent, <<" ", "x">>,
          <<"a", "/", "b", ",", " ", "a">>, <<"a">>, Absent) }

Records ==
    { [p EXCEPT !.id = h[1], !.title = h[2]] : h \in Headers, p \in Profiles }

\* The lists of at most MaxBooks records.
BookLists == UNION {[1..n -> Records] : n \in 0..MaxBooks}

\* ------------------------------------------------------------- the engine
NodeTypes == TypeSet \cup {"book"}

\* CONFIG of each revision in whole numbers: strengths, ring ratios and
\* alpha targets in hundredths, centerStrength in thousandths, alphaDecay in
\* ten-thousandths; 0 where the revision has no such entry.
CONFIG(v) ==
    CASE v = "part_001" ->
           [FORCE |-> [dragAlphaTarget |-> 35, linkDistance |-> 70, linkStrength |-> 90,
                       chargeStrength |-> -520, chargeDistanceMax |-> 650, alphaDecay |-> 200],
            FILTER_FORCE |-> [linkDistance |-> 48, linkStrength |-> 130,
                              chargeStrength |-> -360, centerStrength |-> 25],
            GLOBE |-> [padding |-> 90, radialStrength |-> 8,
                       ringRatio |-> [book |-> 78, author |-> 95, translator |-> 91,
                                      category |-> 62, subject |-> 70, genre |-> 54,
                                      level |-> 44, division |-> 85],
                       filterRingRatio |-> [book |-> 70, attribute |-> 72, other |-> 74],
                       collideRadius |-> [book |-> 18, other |-> 15],
                       collideStrength |-> 65],
            LABEL |-> [minScaleToShow |-> 105, binGrid |-> 18]]
      [] v = "map_js" ->
           [FORCE |-> [dragAlphaTarget |-> 50, linkDistance |-> 75, linkStrength |-> 40,
                       chargeStrength |-> -350, chargeDistanceMax |-> 600, alphaDecay |-> 228],
            FILTER_FORCE |-> [linkDistance |-> 0, linkStrength |-> 0,
                              chargeStrength |-> 0, centerStrength |-> 0],
            GLOBE |-> [padding |-> 95, radialStrength |-> 6,
                       ringRatio |-> [book |-> 80, author |-> 98, translator |-> 93,
                                      category |-> 65, subject |-> 72, genre |-> 56,
                                      level |-> 46, division |-> 88],
                       filterRingRatio |-> [book |-> 0, attribute |-> 0, other |-> 0],
                       collideRadius |-> [book |-> 22, other |-> 19],
                       collideStrength |-> 50],
            LABEL |-> [minScaleToShow |-> 120, binGrid |-> 0]]
      [] v = "part_000" ->
           [FORCE |-> [dragAlphaTarget |-> 0, linkDistance |-> 60, linkStrength |-> 120,
                       chargeStrength |-> -300, chargeDistanceMax |-> 0, alphaDecay |-> 0],
            FILTER_FORCE |-> [linkDistance |-> 0, linkStrength |-> 0,
                              chargeStrength |-> 0, centerStrength |-> 0],
            GLOBE |-> [padding |-> 80, radialStrength |-> 8,
                       ringRatio |-> [book |-> 72, author |-> 90, translator |-> 88,
                                      category |-> 58, subject |-> 66, genre |-> 50,
                                      level |-> 40, division |-> 80],
                       filterRingRatio |-> [book |-> 0, attribute |-> 0, other |-> 0],
                       collideRadius |-> [book |-> 14, other |-> 12],
                       collideStrength |-> 75],
            LABEL |-> [minScaleToShow |-> 105, binGrid |-> 18]]

\* The floor of the globe radius: Math.max(50, ...), Math.max(60, ...),
\* Math.max(40, ...).
MinRadius(v) ==
    CASE v = "part_001" -> 50 [] v = "map_js" -> 60 [] v = "part_000" -> 40

\* The alpha target the filter reheat sets: d3AlphaTarget(0.25).
ReheatAlphaTarget == 25

\* A force of a fresh engine instance: the library's own, or none.
DefaultLink == [set |-> FALSE, distance |-> 0, strength |-> 0]

DefaultCharge == [set |-> FALSE, strength |-> 0, distanceMax |-> 0]

NoRadial == [set |-> FALSE, R |-> 0, ratio |-> [t \in NodeTypes |-> 0], strength |-> 0]

NoCollide == [set |-> FALSE, book |-> 0, other |-> 0, strength |-> 0]

\* No ForceGraph2D is mounted: graphRef.current is null.
NoEngine ==
    [mounted |-> FALSE, key |-> <<>>, link |-> DefaultLink, charge |-> DefaultCharge,
     radial |-> NoRadial, collide |-> NoCollide, center |-> 0, alphaDecay |-> 0,
     alphaTarget |-> 0]

\* The instance a mount under `key` creates.
FreshEngine(key) == [NoEngine EXCEPT !.mounted = TRUE, !.key = key]

\* The pending timeout of the force injection with what its closure holds.
NoApply == [pending |-> FALSE, stale |-> FALSE, width |-> 0, height |-> 0, tab |-> ALL]

NoLinkCharge == [pending |-> FALSE, stale |-> FALSE]

NoTimers == [apply |-> NoApply, linkCharge |-> NoLinkCharge, resets |-> 0]

NoNode == <<>>

\* isDragging, the node the pointer drags, the nodes whose fx / fy are set,
\* and whether simulationRef.current holds a simulation.
NoDrag == [isDragging |-> FALSE, node |-> NoNode, pinned |-> {}, simulationRef |-> FALSE]

\* The handler or timer that ran last and the engine calls it made.
NoLog == [by |-> "none", calls |-> <<>>]

Min(a, b) == IF a <= b THEN a ELSE b

Max(a, b) == IF a >= b THEN a ELSE b

\* const R = Math.max(50, Math.min(width, height) / 2 - CONFIG.GLOBE.padding)
GlobeRadius(v, w, h) == Max(MinRadius(v), (Min(w, h) \div 2) - CONFIG(v).GLOBE.padding)

\* ringRatio(type) with its tab ignored: the per-type table under every tab.
ringRatioOfTableOnly(v, t, type) ==
    IF type \in NodeTypes THEN CONFIG(v).GLOBE.ringRatio[type] ELSE 85

\* ringRatio(type) under tab t: the per-type ratio (0.85 for a type the
\* table does not hold), or under a filter tab of part_001 the three
\* filter ratios.
ringRatioOf(v, t, type) ==
    IF v # "part_001" \/ t = ALL
    THEN (IF type \in NodeTypes THEN CONFIG(v).GLOBE.ringRatio[type] ELSE 85)
    ELSE IF type = "book" THEN CONFIG(v).GLOBE.filterRingRatio.book
    ELSE IF type = t THEN CONFIG(v).GLOBE.filterRingRatio.attribute
    ELSE CONFIG(v).GLOBE.filterRingRatio.other

\* ringRatio(type) for every node type of the graph.
ringRatio(v, t) == [type \in NodeTypes |-> ringRatioOf(v, t, type)]

\* forceRadial((n) => ringRatio(n.type) * R, 0, 0).strength(radialStrength)
RadialOf(v, w, h, t) ==
    [set |-> TRUE, R |-> GlobeRadius(v, w, h), ratio |-> ringRatio(v, t),
     strength |-> CONFIG(v).GLOBE.radialStrength]

\* forceCollide((n) => book or other radius).strength(collideStrength)
CollideOf(v) ==
    [set |-> TRUE, book |-> CONFIG(v).GLOBE.collideRadius.book,
     other |-> CONFIG(v).GLOBE.collideRadius.other,
     strength |-> CONFIG(v).GLOBE.collideStrength]

\* link distance and strength, charge strength and distanceMax
LinkOf(v, t) ==
    IF v = "part_001" /\ t # ALL
    THEN [set |-> TRUE, distance |-> CONFIG(v).FILTER_FORCE.linkDistance,
          strength |-> CONFIG(v).FILTER_FORCE.linkStrength]
    ELSE [set |-> TRUE, distance |-> CONFIG(v).FORCE.linkDistance,
          strength |-> CONFIG(v).FORCE.linkStrength]

ChargeOf(v, t) ==
    [set |-> TRUE,
     strength |-> IF v = "part_001" /\ t # ALL THEN CONFIG(v).FILTER_FORCE.chargeStrength
                  ELSE CONFIG(v).FORCE.chargeStrength,
     distanceMax |-> CONFIG(v).FORCE.chargeDistanceMax]

\* What one render shows to the effects and to the keyed ForceGraph2D.
\* `${dTab}|${dChip ?? "ALL"}|${nodeCount}` and its two other spellings
graphKey(v, g, t, c) ==
    CASE v = "part_001" -> <<t, IF c = Absent THEN <<"ALL">> ELSE c, Len(g.nodes)>>
      [] v = "map_js"   -> <<t, IF Truthy(c) THEN c ELSE <<"all">>, Len(g.nodes)>>
      [] v = "part_000" -> <<t, IF c = Absent THEN <<"ALL">> ELSE c, Len(g.nodes), Len(g.links)>>

\* isClient && !loading && !err && graph.nodes.length > 0; part_000 mounts
\* the graph whatever its node count.
Mountable(v, ld, g) == ~ld /\ (v = "part_000" \/ Len(g.nodes) > 0)

View(v, ld, g, t, c, sz) ==
    [mountable |-> Mountable(v, ld, g), key |-> graphKey(v, g, t, c),
     nodeCount |-> Len(g.nodes), linkCount |-> Len(g.links),
     tab |-> t, chip |-> c, width |-> sz.width, height |-> sz.height]

\* A position the engine has given a node, or none yet.
NoPosition == [known |-> FALSE, x |-> 0, y |-> 0]

At(x, y) == [known |-> TRUE, x |-> x, y |-> y]

\* The frame being drawn: the zoom scale in hundredths, the position of
\* the k-th node, labelBinsRef.current, and what nodeCanvasObject did for
\* each node it has visited since onRenderFramePre.
NoFrame ==
    [phase |-> "idle", scale |-> 100, layout |-> <<>>, bins |-> {}, visits |-> <<>>]

\* No click has happened.
NoClick == [kind |-> "none", id |-> NoNode, type |-> "none", ts |-> 0, navigated |-> FALSE]

\* lastTap, Date.now(), the route pushed last, and the latest two clicks.
NoTap ==
    [lastTap |-> [id |-> NoNode, ts |-> 0], now |-> 0, route |-> <<>>,
     last |-> NoClick, prev |-> NoClick]

\* No timeout has fired in the latest step.
NoFired ==
    [by |-> "none", changed |-> FALSE, width |-> 0, height |-> 0, tab |-> ALL, chip |-> Absent]

\* The timeouts the viewport effects and the engine-stop handler have set
\* and that have neither fired nor been cleared, oldest first, each with
\* the width, height, tab and chip of the render that set it and whether
\* the viewport or the selection has changed since; and the timeout that
\* fired in the latest step.
NoLater == [forces |-> <<>>, fits |-> <<>>, fired |-> NoFired]

\* The data load: whether the component is mounted, the fetches that have
\* not settled (each with its retryCount and whether its controller was
\* aborted), the retry timeouts that have not fired (each with the
\* retryCount it will pass), the delays of the retry timeouts set so far,
\* the number of fetches started, the error state, whether setBooks has
\* run, and the number of fetches started after the teardown.
NoLoad ==
    [phase |-> "created", flights |-> {}, retries |-> {}, waits |-> <<>>,
     attempts |-> 0, error |-> "", booksSet |-> FALSE, lateStarts |-> 0]

\* ------------------------------------------------------------ the page
Init ==
    /\ variant \in Variants
    /\ loading = TRUE
    /\ books = <<>>
    /\ base = buildGraph(variant, <<>>)
    /\ tab = ALL
    /\ chip = Absent
    /\ graph = filter(variant, base, tab, chip)
    /\ facets = extractFacetList(variant, books)
    /\ call = NoCall
    /\ size = [width |-> 0, height |-> 0]
    /\ engine = NoEngine
    /\ timers = NoTimers
    /\ drag = NoDrag
    /\ log = NoLog
    /\ hover = NoNode
    /\ frame = NoFrame
    /\ tap = NoTap
    /\ later = NoLater
    /\ load = NoLoad

\* The data-load handler: setBooks(list), then the render recomputes the
\* memoised base graph and filtered graph.  The list is the argument of
\* buildGraph: part_001 (line 583) and map.js drop the records without id
\* or title from the response before setBooks, part_000 (lines 345-349)
\* passes every record on, so the lists here hold such records too.
LoadBooks(lists) ==
    /\ loading
    /\ \E list \in lists :
          /\ books' = list
          /\ base' = buildGraph(variant, list)
          /\ facets' = extractFacetList(variant, list)
    /\ loading' = FALSE
    /\ graph' = filter(variant, base', tab, chip)
    /\ UNCHANGED <<variant, tab, chip>>

\* The data load as far as the data of the page goes.
SetBooks(lists) == LoadBooks(lists) /\ UNCHANGED offPage

\* React calls the factory of useMemo again (the cache is no guarantee).
Rebuild ==
    /\ ~loading
    /\ base' = buildGraph(variant, books)
    /\ graph' = filter(variant, base', tab, chip)
    /\ facets' = extractFacetList(variant, books)
    /\ UNCHANGED <<variant, loading, books, tab, chip, offPage>>

Next ==
    \/ SetBooks(BookLists)
    \/ Rebuild

Spec == Init /\ [][Next]_vars

\* --------------------------------------------------- the filter controls
\* The records the filter is exercised on: well-formed books with no
\* attribute, with one author, with the same value under three types, and
\* with a category field that repeats a token.
FilterProfiles ==
    { Rec(Absent, Absent, Absent, Absent, Absent, Absent, Absent, Absent, Absent, Absent),
      Rec(Absent, Absent, <<"A">>, Absent, Absent, Absent, Absent, Absent, Absent, Absent),
      Rec(Absent, Absent, <<"A">>, Absent, Absent, <<"A">>, Absent, <<"A">>, Absent, Absent),
      Rec(Absent, Absent, Absent, Absent, Absent, Absent, Absent, <<"a", "/", "b", ",", " ", "a">>, <<"a">>, Absent) }

FilterRecords ==
    { [p EXCEPT !.id = i, !.title = <<"T">>] : i \in {<<"1">>, <<"2">>}, p \in FilterProfiles }

FilterLists == UNION {[1..n -> FilterRecords] : n \in 0..MaxBooks}

TabVals == TypeSet \cup {ALL}

\* Chip values: two that books carry and one that none does (the page
\* offers only the values of facets[tab]; the filter takes any).
ChipVals == {<<"A">>, <<"a">>, <<"Z">>}

\* changeTab(t): setTab(t); setChip(null); the render recomputes `graph`
\* from the deferred values dTab, dChip, which settle on tab, chip.
SelectTab(t) ==
    /\ tab' = t
    /\ chip' = Absent
    /\ graph' = filter(variant, base, tab', chip')
    /\ UNCHANGED <<variant, loading, books, base, facets, sideVars>>

\* The tab change as far as the data of the page goes.
changeTab(t) == SelectTab(t) /\ UNCHANGED offPage

\* changeChip(v): setChip((c) => (c === v ? null : v)); the chip buttons
\* are rendered only under a tab of CONFIG.FILTER.TYPES.
ToggleChip(v) ==
    /\ tab \in TypeSet
    /\ chip' = IF chip = v THEN Absent ELSE v
    /\ graph' = filter(variant, base, tab, chip')
    /\ UNCHANGED <<variant, loading, books, base, tab, facets, sideVars>>

\* The chip change as far as the data of the page goes.
changeChip(v) == ToggleChip(v) /\ UNCHANGED offPage

IsHydrated(g) == \E k \in 1..Len(g.links) : g.links[k].source.ref \/ g.links[k].target.ref

NodeById(g, id) == g.nodes[CHOOSE k \in 1..Len(g.nodes) : g.nodes[k].id = id]

\* The force engine takes graphData={graph} and replaces, in place, the
\* string endpoints of its links by the node objects.
Hydrate ==
    /\ graph.links # <<>>
    /\ ~IsHydrated(graph)
    /\ \A k \in 1..Len(graph.links) :
          /\ byIdHas(graph.nodes, ends(graph.links[k])[1])
          /\ byIdHas(graph.nodes, ends(graph.links[k])[2])
    /\ graph' = [graph EXCEPT !.links =
                    [k \in 1..Len(graph.links) |->
                        [graph.links[k] EXCEPT
                            !.source = RefEnd(NodeById(graph, ends(graph.links[k])[1])),
                            !.target = RefEnd(NodeById(graph, ends(graph.links[k])[2]))]]]
    /\ UNCHANGED <<variant, loading, books, base, tab, chip, facets, offPage>>

NextFilter ==
    \/ SetBooks(FilterLists)
    \/ \E t \in TabVals : changeTab(t)
    \/ \E v \in ChipVals \cup {Absent} : changeChip(v)
    \/ Hydrate

SpecFilter == Init /\ [][NextFilter]_vars

\* ------------------------------------------------------ graph vocabulary
NodeIds(g) == {g.nodes[k].id : k \in 1..Len(g.nodes)}

\* The nodes of g that carry the id.
NodesWithId(g, id) == {k \in 1..Len(g.nodes) : g.nodes[k].id = id}

\* An edge as (source id, target id, type), whichever shape its endpoints have.
Triple(l) ==
    <<IF l.source.ref THEN l.source.node.id ELSE l.source.id,
      IF l.target.ref THEN l.target.node.id ELSE l.target.id,
      l.type>>

TripleSet(g) == {Triple(g.links[k]) : k \in 1..Len(g.links)}

\* How many edges of g are the triple x.
EdgeCount(g, x) == Cardinality({k \in 1..Len(g.links) : Triple(g.links[k]) = x})

SameEdgeBag(g, h) ==
    /\ Len(g.links) = Len(h.links)
    /\ \A x \in TripleSet(g) \cup TripleSet(h) : EdgeCount(g, x) = EdgeCount(h, x)

IsPrefix(s, t) == Len(s) <= Len(t) /\ SubSeq(t, 1, Len(s)) = s

\* The graph after the first k records.
GraphAfter(k) == buildGraph(variant, SubSeq(books, 1, k))

\* The list without its k-th record.
Without(bs, k) == SubSeq(bs, 1, k - 1) \o SubSeq(bs, k + 1, Len(bs))

\* The edges the k-th record added.
EdgesOf(k) == SubSeq(GraphAfter(k).links, Len(GraphAfter(k - 1).links) + 1, Len(GraphAfter(k).links))

\* ------------------------------------------------------------------ C1
\* C1: no two nodes of the built graph have the same id, and building the
\* graph again from the same list gives the same set of node ids and the
\* same multiset of (source id, target id, type) edges.
C1_UniqueIdsAndRepeatable ==
    /\ \A i, j \in 1..Len(base.nodes) :
          base.nodes[i].id = base.nodes[j].id => i = j
    /\ LET again == buildGraph(variant, books)
       IN  /\ NodeIds(again) = NodeIds(base)
           /\ SameEdgeBag(again, base)

\* Two accepted books that share an attribute value: three nodes, two edges.
C1_Witness ==
    /\ ~loading
    /\ Len(books) = 2
    /\ Len(base.links) = 2
    /\ Len(base.nodes) = 3
    /\ base.links[1].target = base.links[2].target

\* ------------------------------------------------------------------ C2
\* C2: every edge of the built graph goes from a node of type book that is
\* in the node list to a node of one of the seven attribute types that is
\* in the node list.
C2_Bipartite ==
    \A k \in 1..Len(base.links) :
        LET x == Triple(base.links[k])
        IN  /\ NodesWithId(base, x[1]) # {}
            /\ \A n \in NodesWithId(base, x[1]) : base.nodes[n].type = "book"
            /\ NodesWithId(base, x[2]) # {}
            /\ \A n \in NodesWithId(base, x[2]) : base.nodes[n].type \in TypeSet
            /\ x[3] \in TypeSet

C2_Witness ==
    /\ Len(base.links) >= 3
    /\ \E i, j \in 1..Len(base.links) : base.links[i].type # base.links[j].type

\* ------------------------------------------------------------------ C8
\* C8: a record without an id or without a title contributes nothing: the
\* built graph is the graph of the list without that record.
C8_MalformedSkipped ==
    \A k \in 1..Len(books) :
        (~Truthy(books[k].id) \/ ~Truthy(books[k].title))
            => base = buildGraph(variant, Without(books, k))

\* ------------------------------------------------------------------ C9
\* C9: a node is created once per distinct id.  Each record leaves the
\* nodes already present untouched (label and extras of the first
\* reference), adds one node for each id it refers to that is not yet
\* present and none for an id that is, and every edge ends at exactly one
\* node.
RefIds(b) ==
    IF ~Accepts(variant, b) THEN {}
    ELSE LET ps == AttrPairs(variant, b)
         IN  {MakeId("book", b.id)} \cup {MakeId(ps[k][2], ps[k][1]) : k \in 1..Len(ps)}

C9_NodeOncePerId ==
    /\ \A k \in 1..Len(books) :
          LET before == GraphAfter(k - 1).nodes
              after  == GraphAfter(k).nodes
          IN  /\ IsPrefix(before, after)
              /\ Len(after) - Len(before)
                    = Cardinality(RefIds(books[k]) \ {before[n].id : n \in 1..Len(before)})
    /\ \A k \in 1..Len(base.links) :
          Cardinality(NodesWithId(base, Triple(base.links[k])[2])) = 1

\* Two accepted records with the same id and different titles that share an
\* attribute value: the node keeps the first title.
C9_Witness ==
    /\ Len(books) = 2
    /\ Accepts(variant, books[1]) /\ Accepts(variant, books[2])
    /\ books[1].id = books[2].id
    /\ books[1].title # books[2].title
    /\ Len(base.links) = 2
    /\ base.links[1].target = base.links[2].target
    /\ Len(base.nodes) = 2
    /\ base.nodes[1].label = books[1].title

\* ----------------------------------------------------------------- C10
Str(v) == IF v = Absent THEN <<>> ELSE v

Blank(s) == \A i \in 1..Len(s) : s[i] = " "

IsSep(c) == c \in Delimiters \cup {","}

\* v is s without its leading and trailing spaces, and is not empty.
TrimmedOf(s, v) ==
    \E i, j \in 1..Len(s) :
        /\ i <= j
        /\ v = SubSeq(s, i, j)
        /\ s[i] # " " /\ s[j] # " "
        /\ Blank(SubSeq(s, 1, i - 1))
        /\ Blank(SubSeq(s, j + 1, Len(s)))

\* The places where a token of s starts: a character that is neither a
\* space nor a separator, with only spaces between it and the separator
\* (or the start of s) before it.
TokenStarts(s) ==
    {i \in 1..Len(s) :
        /\ s[i] # " " /\ ~IsSep(s[i])
        /\ \A m \in 1..(i - 1) :
              (\A n \in m..(i - 1) : ~IsSep(s[n])) => s[m] = " "}

\* v is one token of s: a stretch without separators, spaces stripped.
TokenOf(s, v) ==
    \E i \in TokenStarts(s) : \E j \in i..Len(s) :
        /\ v = SubSeq(s, i, j)
        /\ s[j] # " "
        /\ \A n \in i..j : ~IsSep(s[n])
        /\ \A m \in (j + 1)..Len(s) :
              (\A n \in (j + 1)..m : ~IsSep(s[n])) => s[m] = " "

CountType(es, t) == Cardinality({k \in 1..Len(es) : es[k].type = t})

\* The raw value of an attribute of record b.
FieldOf(b, t) ==
    CASE t = "author"     -> Str(b.author)
      [] t = "translator" -> Str(TranslatorOf(variant, b))
      [] t = "level"      -> Str(b.level)
      [] t = "division"   -> Str(b.division)
      [] t = "category"   -> Str(b.category)
      [] t = "subject"    -> Str(b.subject)
      [] t = "genre"      -> Str(b.genre)

SingleTypes == {"author", "translator", "level", "division"}

MultiTypes == {"category", "subject", "genre"}

\* C10: an accepted record adds at most one edge per single-valued
\* attribute and none when the value is blank, one edge per non-blank token
\* of each multi-valued field, and every edge it adds goes from its book to
\* the node typed by the attribute and named by the trimmed value.
C10_EdgesPerRecord ==
    \A k \in 1..Len(books) :
        LET b     == books[k]
            after == GraphAfter(k)
            es    == SubSeq(after.links, Len(GraphAfter(k - 1).links) + 1, Len(after.links))
        IN  IF ~Accepts(variant, b) THEN es = <<>>
            ELSE
            /\ \A t \in SingleTypes :
                  /\ CountType(es, t) <= 1
                  /\ Blank(FieldOf(b, t)) => CountType(es, t) = 0
            /\ \A t \in MultiTypes :
                  CountType(es, t) = Cardinality(TokenStarts(FieldOf(b, t)))
            /\ \A e \in 1..Len(es) :
                  LET x == Triple(es[e])
                      v == SubSeq(x[2], 3, Len(x[2]))
                  IN  /\ x[1] = <<"book", ":">> \o b.id
                      /\ x[3] \in TypeSet
                      /\ x[2] = <<x[3], ":">> \o v
                      /\ x[3] \in {"author", "translator", "level"}
                            => TrimmedOf(FieldOf(b, x[3]), v)
                      /\ x[3] = "division" => v = normalizeDivision(b.division)
                      /\ x[3] \in MultiTypes => TokenOf(FieldOf(b, x[3]), v)
                      /\ \E n \in NodesWithId(after, x[2]) :
                            /\ after.nodes[n].type = x[3]
                            /\ after.nodes[n].label = v

\* One record whose category field has three tokens, and one whose author is
\* padded and whose level is blank.
C10_Witness ==
    /\ \E k \in 1..Len(books) :
          /\ Accepts(variant, books[k])
          /\ Len(books[k].category) = 6
          /\ CountType(EdgesOf(k), "category") = 3
    /\ \E k \in 1..Len(books) :
          /\ Accepts(variant, books[k])
          /\ books[k].level = <<" ">>
          /\ books[k].author = <<" ", "A", " ">>
          /\ CountType(EdgesOf(k), "level") = 0
          /\ CountType(EdgesOf(k), "author") = 1

\* ------------------------------------------------------------------ C3
EndpointIds(g) ==
    {Triple(g.links[k])[1] : k \in 1..Len(g.links)}
        \cup {Triple(g.links[k])[2] : k \in 1..Len(g.links)}

EdgesClosed == EndpointIds(graph) \subseteq NodeIds(graph)

NodesAccounted == NodeIds(graph) \subseteq EndpointIds(graph) \cup {<<tab, ":">> \o chip}

\* C3 as stated: for every selection, the endpoints of every filtered edge
\* are filtered nodes, and every filtered node is an endpoint of a kept edge
\* or the seeded chip node.
C3_FilterSound_AsStated == EdgesClosed /\ NodesAccounted

\* C3 as amended: the endpoints of every filtered edge are filtered nodes
\* for every selection; every filtered node is an endpoint of a kept edge
\* or the seeded chip node for every selection whose tab is not ALL.
C3_FilterSound == EdgesClosed /\ (tab # ALL => NodesAccounted)

\* A chip selection that keeps an attribute node and two books.
C3_Witness ==
    /\ tab # ALL
    /\ Truthy(chip)
    /\ Len(graph.nodes) = 3
    /\ Len(graph.links) >= 2
    /\ Len(base.nodes) > 3

\* ------------------------------------------------------------------ C4
\* C4: the filter applied with the same selection to the filtered graph
\* returns the same nodes and the same edges.
C4_FilterIdempotent ==
    LET again == filter(variant, graph, tab, chip)
    IN  /\ NodeIds(again) = NodeIds(graph)
        /\ Len(again.nodes) = Len(graph.nodes)
        /\ SameEdgeBag(again, graph)

\* A type selection that dropped part of the base graph.
C4_Witness ==
    /\ tab # ALL
    /\ graph.links # <<>>
    /\ Len(graph.links) < Len(base.links)
    /\ Len(graph.nodes) < Len(base.nodes)

\* ------------------------------------------------------------------ C5
\* The edges of the base graph the selection (tab, chip) asks for.
Wanted(x) ==
    /\ x[3] = tab
    /\ Truthy(chip) => (x[1] = <<tab, ":">> \o chip \/ x[2] = <<tab, ":">> \o chip)

WantedEnds ==
    {x[1] : x \in {y \in TripleSet(base) : Wanted(y)}}
        \cup {x[2] : x \in {y \in TripleSet(base) : Wanted(y)}}

OriginalId(e) == IF e.ref THEN e.node.id ELSE e.id

\* out is g with each edge's endpoints turned into plain string ids.
AllOf(g, out) ==
    /\ out.nodes = g.nodes
    /\ Len(out.links) = Len(g.links)
    /\ \A k \in 1..Len(g.links) :
          /\ ~out.links[k].source.ref
          /\ ~out.links[k].target.ref
          /\ out.links[k].source.id = OriginalId(g.links[k].source)
          /\ out.links[k].target.id = OriginalId(g.links[k].target)
          /\ out.links[k].type = g.links[k].type

\* C6: with tab = ALL the filter returns every node and one edge per edge
\* of its input, the endpoints as plain string ids equal to the ids of the
\* input's endpoints, for an input whose edges hold string ids (the base
\* graph) and for one whose edges hold node objects (the graph the engine
\* has resolved).
C6_AllTabNormalizes ==
    tab = ALL =>
        /\ AllOf(base, filter(variant, base, tab, chip))
        /\ AllOf(graph, filter(variant, graph, tab, chip))
        /\ ~IsHydrated(graph) => AllOf(base, graph)

C6_Witness ==
    /\ tab = ALL
    /\ IsHydrated(graph)
    /\ Len(graph.links) >= 3

\* ------------------------------------------------------------------ C7
\* No accepted record carries the value c under the type t.
NoBookCarries(t, c) ==
    \A k \in 1..Len(books) :
        Accepts(variant, books[k]) =>
            \A p \in 1..Len(AttrPairs(variant, books[k])) :
                AttrPairs(variant, books[k])[p] # <<c, t>>

\* C7: a tab and a chip value that no book carries give a graph with no
\* edge and at most one node, the attribute node tab:chip.
C7_UnknownChip ==
    (tab # ALL /\ Truthy(chip) /\ NoBookCarries(tab, chip)) =>
        /\ graph.links = <<>>
        /\ Len(graph.nodes) <= 1
        /\ \A k \in 1..Len(graph.nodes) : graph.nodes[k].id = <<tab, ":">> \o chip

\* The books carry other values of the selected type, yet none is kept.
C7_Witness ==
    /\ tab = "author"
    /\ chip = <<"Z">>
    /\ CountType(base.links, "author") = 2
    /\ NoBookCarries(tab, chip)
    /\ graph.links = <<>>

\* ------------------------------------------------------ calls of helpers
MaxDivisionLen == 3

DivisionTokens == {"beonyeok", "wonseo", "gugoe", "haeoe", "gungnae", " ", "x"}

\* The division values: undefined, and every string of at most
\* MaxDivisionLen tokens.
DivisionInputs ==
    {Absent} \cup UNION {[1..n -> DivisionTokens] : n \in 0..MaxDivisionLen}

CallNormalizeDivision ==
    /\ \E v \in DivisionInputs :
          call' = [fn |-> "normalizeDivision", arg |-> v, result |-> normalizeDivision(v)]
    /\ UNCHANGED <<variant, loading, books, base, tab, chip, graph, facets, engineVars, viewVars, sideVars>>

NextDivision == CallNormalizeDivision

SpecDivision == Init /\ [][NextDivision]_vars

\* ------------------------------------------------------------------ C11
\* The rules in their order: the keywords of each and the value it returns.
DivisionRules ==
    << <<{"beonyeok"}, <<"beonyeok", "seo">> >>,
       <<{"wonseo"}, <<"wonseo">> >>,
       <<{"gugoe", "haeoe"}, <<"gugoe", "seo">> >>,
       <<{"gungnae"}, <<"gungnae", "seo">> >> >>

RuleMatches(s, r) == \E i \in 1..Len(s) : s[i] \in DivisionRules[r][1]

\* C11: normalizeDivision returns the value of the first rule, in the order
\* translation, origin, overseas, domestic, whose keyword occurs in the
\* trimmed input, whichever other keywords occur; an input with no keyword
\* comes back trimmed, and an empty input yields no division value.
C11_DivisionPriority ==
    call.fn = "normalizeDivision" =>
        LET s == Trim(Str(call.arg))
        IN  /\ \A r \in 1..Len(DivisionRules) :
                  (RuleMatches(s, r) /\ \A q \in 1..(r - 1) : ~RuleMatches(s, q))
                      => call.result = DivisionRules[r][2]
            /\ (s # <<>> /\ \A r \in 1..Len(DivisionRules) : ~RuleMatches(s, r))
                  => call.result = s
            /\ s = <<>> => ~Truthy(call.result)

\* "gungnae beonyeok" plus one more token: the domestic keyword comes first
\* in the text and the translation rule still wins.
C11_Witness ==
    /\ call.fn = "normalizeDivision"
    /\ Len(call.arg) = 3
    /\ call.arg[1] = "gungnae"
    /\ call.arg[3] = "beonyeok"
    /\ call.result = <<"beonyeok", "seo">>

\* ------------------------------------------------------ the facet inputs
\* Records whose values exercise the sort: numbers of one and two digits,
\* a padded repeat, both cases of a letter, the two spellings of one
\* syllable, and a translator under either key.
FacetProfiles ==
    { Rec(Absent, Absent, <<"a">>, Absent, Absent, <<"2">>, Absent, <<"ga">>, Absent, Absent),
      Rec(Absent, Absent, <<"A">>, Absent, Absent, <<"1", "2">>, Absent,
          <<"ga_nfd", ",", "ga">>, Absent, Absent),
      Rec(Absent, Absent, <<"b">>, <<>>, <<"C">>, <<" ", "2", " ">>, <<"gungnae">>,
          <<"b", "/", "a">>, Absent, <<"a", "|", "a">>),
      Rec(Absent, Absent, Absent, <<"B">>, Absent, <<"1">>, <<"x">>, Absent, <<"2", ",", "1", "2">>, Absent),
      Rec(Absent, Absent, Absent, Absent, Absent, Absent, Absent, Absent, Absent, Absent) }

FacetRecords ==
    { [p EXCEPT !.id = i, !.title = <<"T">>] : i \in {<<"1">>, <<"2">>}, p \in FacetProfiles }

FacetLists == UNION {[1..n -> FacetRecords] : n \in 0..MaxBooks}

NextFacets ==
    \/ SetBooks(FacetLists)
    \/ Rebuild

SpecFacets == Init /\ [][NextFacets]_vars

\* ------------------------------------------------------------------ C12
\* Record b carries the value v under type t.
Carries(b, t, v) ==
    CASE t \in {"author", "translator", "level"} -> TrimmedOf(FieldOf(b, t), v)
      [] t = "division" -> Truthy(v) /\ v = normalizeDivision(b.division)
      [] t \in MultiTypes -> TokenOf(FieldOf(b, t), v)

\* Every stretch of the raw field, and the normalized division.
Candidates(b, t) ==
    {SubSeq(FieldOf(b, t), i, j) : i, j \in 1..Len(FieldOf(b, t))}
        \cup {normalizeDivision(b.division)}

\* The facet list of t holds exactly the values the records carry under t.
ExactValues(t) ==
    /\ \A k \in 1..Len(facets[t]) : \E n \in 1..Len(books) : Carries(books[n], t, facets[t][k])
    /\ \A n \in 1..Len(books) : \A v \in Candidates(books[n], t) :
          Carries(books[n], t, v) => \E k \in 1..Len(facets[t]) : facets[t][k] = v

NoValueTwice(t) ==
    \A i, j \in 1..Len(facets[t]) : facets[t][i] = facets[t][j] => i = j

\* C12 as stated: every facet list is strictly increasing under the
\* collation of the sort, holds no value twice, and holds exactly the
\* distinct normalized values of its type found in the records.
C12_FacetsStrictlySorted ==
    \A t \in TypeSet :
        /\ \A k \in 1..(Len(facets[t]) - 1) :
              localeCompare(facets[t][k], facets[t][k + 1], NumericSort(variant)) < 0
        /\ NoValueTwice(t)
        /\ ExactValues(t)

\* C12, amended: every facet list is non-decreasing under the collation of
\* the sort (two distinct values the collation does not tell apart stand
\* side by side), holds no value twice, and holds exactly the distinct
\* normalized values of its type found in the records.
C12_FacetsSorted ==
    \A t \in TypeSet :
        /\ \A i, j \in 1..Len(facets[t]) :
              i < j => localeCompare(facets[t][i], facets[t][j], NumericSort(variant)) <= 0
        /\ NoValueTwice(t)
        /\ ExactValues(t)

\* Two records: the levels 12 and 2 arrive in that order and are listed as
\* 2, 12 by the numeric sort, and a category arrives twice and is listed once.
C12_Witness ==
    /\ ~loading
    /\ Len(books) = 2
    /\ books[1].level = <<"1", "2">>
    /\ books[2].level = <<" ", "2", " ">>
    /\ NumericSort(variant)
    /\ facets["level"] = << <<"2">>, <<"1", "2">> >>
    /\ facets["category"] = << <<"a">>, <<"b">>, <<"ga_nfd">>, <<"ga">> >>

\* ------------------------------------------------- the engine and its page
MaxResets == 2

\* The dependency lists of the force injection, of part_000's link and
\* charge injection, and of the filter reheat.
ForceDeps(v, w) ==
    CASE v = "part_001" -> <<w.width, w.height, w.nodeCount, w.tab>>
      [] v = "map_js"   -> <<w.width, w.height, w.nodeCount>>
      [] v = "part_000" -> <<w.width, w.height, w.nodeCount, w.linkCount, w.tab, w.chip>>

LinkChargeDeps(w) == <<w.nodeCount, w.linkCount>>

ReheatDeps(w) == <<w.tab, w.chip, w.nodeCount>>

\* The render commits: the keyed ForceGraph2D stays, is replaced by a new
\* instance when the key changed, or is unmounted.
Committed(e, w) ==
    IF ~w.mountable THEN NoEngine
    ELSE IF ~e.mounted \/ e.key # w.key THEN FreshEngine(w.key)
    ELSE e

\* The timeout of the force injection after the render: a changed
\* dependency clears it and, past the guard, sets a new one; left alone,
\* it keeps the instance and the values its closure captured.
ApplyTimerAfter(old, new, gone) ==
    IF ForceDeps(variant, old) # ForceDeps(variant, new) /\ variant # "part_000"
    THEN IF new.mountable /\ new.width # 0 /\ new.height # 0
         THEN [pending |-> TRUE, stale |-> FALSE, width |-> new.width,
               height |-> new.height, tab |-> new.tab]
         ELSE NoApply
    ELSE IF timers.apply.pending /\ gone THEN [timers.apply EXCEPT !.stale = TRUE]
    ELSE timers.apply

LinkChargeTimerAfter(old, new, gone) ==
    IF LinkChargeDeps(old) # LinkChargeDeps(new) /\ variant = "part_000"
    THEN IF new.mountable THEN [pending |-> TRUE, stale |-> FALSE] ELSE NoLinkCharge
    ELSE IF timers.linkCharge.pending /\ gone
         THEN [timers.linkCharge EXCEPT !.stale = TRUE]
    ELSE timers.linkCharge

\* The effects of one render that took the page from view `old` to view
\* `new`, run by `by`: the commit of the keyed graph, part_000's immediate
\* radial and collide registration, the timeouts of the injections, and the
\* filter reheat with its delayed reset.
RenderEffects(by, old, new) ==
    LET e1 == Committed(engine, new)
        gone == ~e1.mounted \/ ~engine.mounted \/ e1.key # engine.key
        radialNow == /\ variant = "part_000"
                     /\ ForceDeps(variant, old) # ForceDeps(variant, new)
                     /\ new.mountable /\ new.width # 0 /\ new.height # 0
        e2 == IF radialNow
              THEN [e1 EXCEPT !.radial = RadialOf(variant, new.width, new.height, new.tab),
                              !.collide = CollideOf(variant)]
              ELSE e1
        reheat == /\ variant = "part_001"
                  /\ ReheatDeps(old) # ReheatDeps(new)
                  /\ new.mountable
        e3 == IF reheat THEN [e2 EXCEPT !.alphaTarget = ReheatAlphaTarget] ELSE e2
    IN  /\ reheat => timers.resets < MaxResets
        /\ engine' = e3
        /\ timers' = [apply |-> ApplyTimerAfter(old, new, gone),
                      linkCharge |-> LinkChargeTimerAfter(old, new, gone),
                      resets |-> timers.resets + (IF reheat THEN 1 ELSE 0)]
        /\ log' = [by |-> by,
                   calls |-> (IF radialNow THEN <<"d3Force:radial", "d3Force:collide">> ELSE <<>>)
                             \o (IF reheat THEN <<"d3AlphaTarget", "d3ReheatSimulation">> ELSE <<>>)]

OldView == View(variant, loading, graph, tab, chip, size)

NewView == View(variant, loading', graph', tab', chip', size')

\* The data load with the render it causes.
SetBooksRender(lists) ==
    /\ LoadBooks(lists)
    /\ UNCHANGED <<call, size, drag, viewVars, sideVars>>
    /\ RenderEffects("setBooks", OldView, NewView)

\* changeTab(t) with the render it causes.
changeTabRender(t) ==
    /\ ~loading
    /\ SelectTab(t)
    /\ UNCHANGED <<call, size, drag, viewVars, sideVars>>
    /\ RenderEffects("changeTab", OldView, NewView)

\* changeChip(v) with the render it causes.
changeChipRender(v) ==
    /\ ~loading
    /\ ToggleChip(v)
    /\ UNCHANGED <<call, size, drag, viewVars, sideVars>>
    /\ RenderEffects("changeChip", OldView, NewView)

\* The sizes the ResizeObserver of useContainerSize reports.
ViewportSizes ==
    { [width |-> 0, height |-> 0], [width |-> 800, height |-> 0],
      [width |-> 400, height |-> 400], [width |-> 800, height |-> 600] }

\* The ResizeObserver callback: setSize, and the render it causes.
Resize(sz) ==
    /\ sz # size
    /\ size' = sz
    /\ UNCHANGED <<variant, loading, books, base, tab, chip, graph, facets, call, drag, viewVars, sideVars>>
    /\ RenderEffects("resize", OldView, NewView)

HasCall(c) == \E k \in 1..Len(log.calls) : log.calls[k] = c

\* The timeout of the force injection fires: apply() of part_001,
\* setupForces() of map.js, on the instance the effect captured.
applyForces ==
    /\ timers.apply.pending
    /\ variant # "part_000"
    /\ timers' = [timers EXCEPT !.apply = NoApply]
    /\ LET a == timers.apply
           filtered == variant = "part_001" /\ a.tab # ALL
       IN  IF a.stale
           THEN /\ engine' = engine
                /\ log' = [by |-> "applyForces", calls |-> <<>>]
                /\ IF variant = "map_js"
                   THEN \E sim \in BOOLEAN : drag' = [drag EXCEPT !.simulationRef = sim]
                   ELSE drag' = drag
           ELSE IF variant = "part_001"
           THEN /\ engine' = [engine EXCEPT
                                !.link = LinkOf(variant, a.tab),
                                !.charge = ChargeOf(variant, a.tab),
                                !.radial = RadialOf(variant, a.width, a.height, a.tab),
                                !.collide = CollideOf(variant),
                                !.center = IF filtered
                                           THEN CONFIG(variant).FILTER_FORCE.centerStrength
                                           ELSE 0,
                                !.alphaDecay = CONFIG(variant).FORCE.alphaDecay]
                /\ log' = [by |-> "applyForces",
                           calls |-> <<"d3Force:link", "d3Force:charge", "d3Force:radial",
                                       "d3Force:collide", "d3Force:fx", "d3Force:fy",
                                       "d3AlphaDecay">>]
                /\ drag' = drag
           ELSE \E sim \in BOOLEAN :
                /\ engine' = [engine EXCEPT
                                !.link = LinkOf(variant, a.tab),
                                !.charge = ChargeOf(variant, a.tab),
                                !.radial = RadialOf(variant, a.width, a.height, a.tab),
                                !.collide = CollideOf(variant),
                                !.alphaDecay = IF sim THEN CONFIG(variant).FORCE.alphaDecay
                                               ELSE engine.alphaDecay]
                /\ log' = [by |-> "applyForces",
                           calls |-> <<"d3Force:link", "d3Force:charge", "d3Force:radial",
                                       "d3Force:collide">>]
                /\ drag' = [drag EXCEPT !.simulationRef = sim]
    /\ UNCHANGED <<variant, loading, books, base, tab, chip, graph, facets, call, size, viewVars, sideVars>>

\* The timeout of part_000's link and charge injection fires.
applyLinkCharge ==
    /\ timers.linkCharge.pending
    /\ timers' = [timers EXCEPT !.linkCharge = NoLinkCharge]
    /\ IF timers.linkCharge.stale
       THEN /\ engine' = engine
            /\ log' = [by |-> "applyLinkCharge", calls |-> <<>>]
       ELSE /\ engine' = [engine EXCEPT
                            !.link = LinkOf(variant, ALL),
                            !.charge = [set |-> TRUE,
                                        strength |-> CONFIG(variant).FORCE.chargeStrength,
                                        distanceMax |-> engine.charge.distanceMax]]
            /\ log' = [by |-> "applyLinkCharge",
                       calls |-> <<"d3Force:link", "d3Force:charge">>]
    /\ UNCHANGED <<variant, loading, books, base, tab, chip, graph, facets, call, size, drag, viewVars, sideVars>>

\* A delayed reset of the filter reheat fires:
\* graphRef.current?.d3AlphaTarget?.(0), on whatever is mounted by then.
resetAlphaTarget ==
    /\ timers.resets > 0
    /\ timers' = [timers EXCEPT !.resets = timers.resets - 1]
    /\ IF engine.mounted
       THEN /\ engine' = [engine EXCEPT !.alphaTarget = 0]
            /\ log' = [by |-> "resetAlphaTarget", calls |-> <<"d3AlphaTarget">>]
       ELSE /\ engine' = engine
            /\ log' = [by |-> "resetAlphaTarget", calls |-> <<>>]
    /\ UNCHANGED <<variant, loading, books, base, tab, chip, graph, facets, call, size, drag, viewVars, sideVars>>

\* The engine reports the start of a drag of node n: handleNodeDragStart
\* of part_001 and of map.js (whose graphRef.current.d3Force() yields a
\* simulation or nothing); part_000 wires no drag handler.
onNodeDragStart(n) ==
    /\ engine.mounted
    /\ n \in NodeIds(graph)
    /\ drag.node = NoNode
    /\ CASE variant = "part_001" ->
              /\ drag' = [drag EXCEPT !.isDragging = TRUE, !.node = n,
                                      !.pinned = drag.pinned \cup {n}]
              /\ engine' = [engine EXCEPT !.alphaTarget = CONFIG(variant).FORCE.dragAlphaTarget]
              /\ log' = [by |-> "onNodeDragStart",
                         calls |-> <<"d3AlphaTarget", "d3ReheatSimulation">>]
         [] variant = "map_js" ->
              \E sim \in BOOLEAN :
                 IF sim
                 THEN /\ drag' = [drag EXCEPT !.isDragging = TRUE, !.node = n,
                                              !.simulationRef = TRUE]
                      /\ engine' = [engine EXCEPT
                                      !.alphaTarget = CONFIG(variant).FORCE.dragAlphaTarget]
                      /\ log' = [by |-> "onNodeDragStart",
                                 calls |-> <<"alphaTarget", "alpha", "restart">>]
                 ELSE /\ drag' = [drag EXCEPT !.isDragging = TRUE, !.node = n]
                      /\ engine' = engine
                      /\ log' = [by |-> "onNodeDragStart", calls |-> <<>>]
         [] variant = "part_000" ->
              /\ drag' = [drag EXCEPT !.node = n]
              /\ engine' = engine
              /\ log' = [by |-> "onNodeDragStart", calls |-> <<>>]
    /\ UNCHANGED <<variant, loading, books, base, tab, chip, graph, facets, call, size, timers, viewVars, sideVars>>

\* The engine reports a move of the dragged node: handleNodeDrag of
\* part_001; map.js and part_000 pass no onNodeDrag.
onNodeDrag(n) ==
    /\ drag.node = n
    /\ n # NoNode
    /\ IF variant = "part_001"
       THEN /\ drag' = [drag EXCEPT !.pinned = drag.pinned \cup {n}]
            /\ log' = [by |-> "onNodeDrag",
                       calls |-> IF engine.mounted THEN <<"d3ReheatSimulation">> ELSE <<>>]
       ELSE /\ drag' = drag
            /\ log' = [by |-> "onNodeDrag", calls |-> <<>>]
    /\ UNCHANGED <<variant, loading, books, base, tab, chip, graph, facets, call, size,
                   timers, engine, viewVars, sideVars>>

\* The engine reports the end of the drag: handleNodeDragEnd.
onNodeDragEnd(n) ==
    /\ drag.node = n
    /\ n # NoNode
    /\ CASE variant = "part_001" ->
              /\ drag' = [drag EXCEPT !.isDragging = FALSE, !.node = NoNode,
                                      !.pinned = drag.pinned \ {n}]
              /\ engine' = IF engine.mounted THEN [engine EXCEPT !.alphaTarget = 0] ELSE engine
              /\ log' = [by |-> "onNodeDragEnd",
                         calls |-> IF engine.mounted
                                   THEN <<"d3AlphaTarget", "d3ReheatSimulation">> ELSE <<>>]
         [] variant = "map_js" ->
              IF drag.simulationRef
              THEN /\ drag' = [drag EXCEPT !.isDragging = FALSE, !.node = NoNode,
                                           !.pinned = drag.pinned \ {n}]
                   /\ engine' = IF engine.mounted THEN [engine EXCEPT !.alphaTarget = 0]
                                ELSE engine
                   /\ log' = [by |-> "onNodeDragEnd",
                              calls |-> <<"alphaTarget", "alpha", "restart">>]
              ELSE /\ drag' = [drag EXCEPT !.isDragging = FALSE, !.node = NoNode]
                   /\ engine' = engine
                   /\ log' = [by |-> "onNodeDragEnd", calls |-> <<>>]
         [] variant = "part_000" ->
              /\ drag' = [drag EXCEPT !.node = NoNode]
              /\ engine' = engine
              /\ log' = [by |-> "onNodeDragEnd", calls |-> <<>>]
    /\ UNCHANGED <<variant, loading, books, base, tab, chip, graph, facets, call, size, timers, viewVars, sideVars>>

\* Two books with one author each, so that the chips A and B select
\* graphs of equal node count.
EngineRecords ==
    << Rec(<<"1">>, <<"T">>, <<"A">>, Absent, Absent, Absent, Absent, Absent, Absent, Absent),
       Rec(<<"2">>, <<"T">>, <<"B">>, Absent, Absent, Absent, Absent, Absent, Absent, Absent) >>

EngineLists == { <<>>, <<EngineRecords[1]>>, EngineRecords }

EngineTabs == {ALL, "author", "level"}

EngineChips == {<<"A">>, <<"B">>}

DragNodes == {MakeId("book", <<"1">>), MakeId("author", <<"A">>)}

NextEngine ==
    \/ SetBooksRender(EngineLists)
    \/ \E t \in EngineTabs : changeTabRender(t)
    \/ \E v \in EngineChips : changeChipRender(v)
    \/ \E sz \in ViewportSizes : Resize(sz)
    \/ applyForces
    \/ applyLinkCharge
    \/ resetAlphaTarget
    \/ \E n \in DragNodes : onNodeDragStart(n)
    \/ \E n \in DragNodes : onNodeDrag(n)
    \/ \E n \in DragNodes : onNodeDragEnd(n)

SpecEngine == Init /\ [][NextEngine]_vars

\* ------------------------------------------------------------------ C13
\* The calls that register or change a force of the engine.
ForceCalls ==
    {"d3Force:link", "d3Force:charge", "d3Force:radial", "d3Force:collide",
     "d3Force:fx", "d3Force:fy"}

\* C13: while the measured viewport width or height is zero, no handler,
\* effect or timer of the page registers or changes a force of the engine
\* (radial, collide, link, charge).
C13_NoForceAtZeroViewport ==
    (size.width = 0 \/ size.height = 0) => \A c \in ForceCalls : ~HasCall(c)

\* ------------------------------------------------------------------ C14
\* The latest step reheated the simulation.
Reheated == HasCall("d3ReheatSimulation") \/ HasCall("restart")

\* The revisions that declare drag handlers.
DragRevisions == {"part_001", "map_js"}

\* C14: on a mounted engine every drag-start leaves the alpha target at the
\* configured drag value and reheats, every drag event reheats, and every
\* drag-end leaves the alpha target at 0 and reheats.
C14_DragReheats ==
    (variant \in DragRevisions /\ engine.mounted) =>
        /\ log.by = "onNodeDragStart" =>
              /\ engine.alphaTarget = CONFIG(variant).FORCE.dragAlphaTarget
              /\ Reheated
        /\ log.by = "onNodeDrag" => Reheated
        /\ log.by = "onNodeDragEnd" => engine.alphaTarget = 0 /\ Reheated

\* ------------------------------------------------------------------ C15
\* The steps that are drag handlers.
DragSteps == {"onNodeDragStart", "onNodeDrag", "onNodeDragEnd"}

\* C15: the dragged node is pinned from drag-start until drag-end, no node
\* is pinned while no drag is in progress, and only the drag handlers
\* change which nodes are pinned.
C15_PinnedOnlyWhileDragged ==
    /\ [](variant \in DragRevisions =>
            /\ drag.node # NoNode => drag.node \in drag.pinned
            /\ drag.node = NoNode => drag.pinned = {})
    /\ [][drag.pinned' # drag.pinned => log'.by \in DragSteps]_vars

\* ------------------------------------------------------------------ C19
\* No timeout of the force injection is still to fire.
DelaysElapsed == ~timers.apply.pending /\ ~timers.linkCharge.pending

\* C19: in part_001, once the pending delays have elapsed, the engine
\* instance that is mounted over a viewport of non-zero size has the radial
\* and collide forces registered with the ring ratios and the radius of the
\* current viewport and tab.
C19_ForcesFollowSelection ==
    (/\ variant = "part_001"
     /\ engine.mounted
     /\ size.width # 0 /\ size.height # 0
     /\ DelaysElapsed)
        => /\ engine.radial = RadialOf(variant, size.width, size.height, tab)
           /\ engine.collide = CollideOf(variant)

\* ------------------------------------------------------------------ C20
\* C20: in part_001, while a node is dragged on a mounted engine, the alpha
\* target of the engine is the configured drag value.
C20_DragKeepsAlphaTarget ==
    (variant = "part_001" /\ drag.node # NoNode /\ engine.mounted)
        => engine.alphaTarget = CONFIG(variant).FORCE.dragAlphaTarget

\* ------------------------------------------------------------ the labels
\* Math.round(a / grid) for whole a and grid > 0.
RoundDiv(a, grid) == (2 * a + grid) \div (2 * grid)

\* cos and sin of Math.atan2(y, x) for a node on an axis of the globe.
Direction(x, y) ==
    IF y = 0 THEN (IF x < 0 THEN <<-1, 0>> ELSE <<1, 0>>)
    ELSE IF y > 0 THEN <<0, 1>> ELSE <<0, -1>>

\* const r = isBook ? 9 : 8 (7 : 6 in part_000)
NodeRadius(v, isBook) ==
    IF v = "part_000" THEN (IF isBook THEN 7 ELSE 6) ELSE (IF isBook THEN 9 ELSE 8)

\* const off = r + 12 (r + 6 in part_000)
LabelOffset(v, isBook) == NodeRadius(v, isBook) + (IF v = "part_000" THEN 6 ELSE 12)

\* The grid cell of the label anchor.
LabelCell(v, isBook, pos) ==
    LET d == Direction(pos.x, pos.y)
        off == LabelOffset(v, isBook)
        grid == CONFIG(v).LABEL.binGrid
    IN  <<RoundDiv(pos.x + off * d[1], grid), RoundDiv(pos.y + off * d[2], grid)>>

\* Set.prototype.clear with nothing cleared.
clearNothing(bins) == bins

\* labelBinsRef.current.clear()
clear(bins) == {}

\* drawNode in which the labels of books and of the hovered node claim
\* their cell as well.
drawNodeAllClaim(v, n, pos, hoveredId, scale, bins) ==
    LET isBook == n.type = "book"
        hovered == hoveredId # NoNode /\ hoveredId = n.id
        show == hovered \/ isBook \/ scale >= CONFIG(v).LABEL.minScaleToShow
        key == LabelCell(v, isBook, pos)
        skip == [known |-> pos.known, hovered |-> hovered, cell |-> key,
                 labelled |-> FALSE, bins |-> bins]
    IN  IF ~pos.known \/ ~show THEN skip
        ELSE IF ~hovered /\ ~isBook /\ key \in bins THEN skip
        ELSE [skip EXCEPT !.labelled = TRUE, !.bins = bins \cup {key}]

\* drawNode(n, ctx, scale): whether the label of n is drawn, and the
\* occupancy set it leaves.
drawNode(v, n, pos, hoveredId, scale, bins) ==
    LET isBook == n.type = "book"
        hovered == hoveredId # NoNode /\ hoveredId = n.id
        show == hovered \/ isBook \/ scale >= CONFIG(v).LABEL.minScaleToShow
        key == LabelCell(v, isBook, pos)
        skip == [known |-> pos.known, hovered |-> hovered, cell |-> key,
                 labelled |-> FALSE, bins |-> bins]
    IN  IF ~pos.known \/ ~show THEN skip
        ELSE IF v = "part_000"
        THEN IF ~hovered /\ key \in bins THEN skip
             ELSE [skip EXCEPT !.labelled = TRUE, !.bins = bins \cup {key}]
        ELSE IF ~hovered /\ ~isBook
        THEN IF key \in bins THEN skip
             ELSE [skip EXCEPT !.labelled = TRUE, !.bins = bins \cup {key}]
        ELSE [skip EXCEPT !.labelled = TRUE]

PositionOf(k) == IF k \in 1..Len(frame.layout) THEN frame.layout[k] ELSE NoPosition

Visited == {frame.visits[j].id : j \in 1..Len(frame.visits)}

\* The engine calls onRenderFramePre at the start of a frame.
onRenderFramePre ==
    /\ engine.mounted
    /\ frame.phase = "idle"
    /\ frame' = [frame EXCEPT !.phase = IF graph.nodes = <<>> THEN "idle" ELSE "drawing",
                              !.bins = clear(frame.bins),
                              !.visits = <<>>]
    /\ UNCHANGED <<variant, loading, books, base, tab, chip, graph, facets, call,
                   engineVars, hover, tap, sideVars>>

\* The engine calls nodeCanvasObject for the k-th node of the frame, each
\* node once, in whatever order.
nodeCanvasObject(k) ==
    /\ engine.mounted
    /\ frame.phase = "drawing"
    /\ k \in 1..Len(graph.nodes)
    /\ graph.nodes[k].id \notin Visited
    /\ LET n == graph.nodes[k]
           d == drawNode(variant, n, PositionOf(k), hover, frame.scale, frame.bins)
           visit == [id |-> n.id, type |-> n.type, known |-> d.known,
                     hovered |-> d.hovered, cell |-> d.cell, labelled |-> d.labelled]
       IN  frame' = [frame EXCEPT
                        !.bins = d.bins,
                        !.visits = Append(frame.visits, visit),
                        !.phase = IF Visited \cup {n.id} = NodeIds(graph)
                                  THEN "idle" ELSE "drawing"]
    /\ UNCHANGED <<variant, loading, books, base, tab, chip, graph, facets, call,
                   engineVars, hover, tap, sideVars>>

\* Between two frames the simulation moves the nodes.
onEngineTick(layout) ==
    /\ engine.mounted
    /\ frame.phase = "idle"
    /\ layout # frame.layout
    /\ frame' = [frame EXCEPT !.layout = layout, !.visits = <<>>]
    /\ UNCHANGED <<variant, loading, books, base, tab, chip, graph, facets, call,
                   engineVars, hover, tap, sideVars>>

\* Between two frames the user zooms.
onZoom(k) ==
    /\ engine.mounted
    /\ frame.phase = "idle"
    /\ k # frame.scale
    /\ frame' = [frame EXCEPT !.scale = k, !.visits = <<>>]
    /\ UNCHANGED <<variant, loading, books, base, tab, chip, graph, facets, call,
                   engineVars, hover, tap, sideVars>>

\* handleHover(node): the pointer enters node n or leaves the nodes
\* (NoNode); the effect copies hover?.node?.id to hoveredIdRef.current.
handleHover(n) ==
    /\ frame.phase = "idle"
    /\ n \in NodeIds(graph) \cup {NoNode}
    /\ hover' = IF n = NoNode \/ ~engine.mounted THEN NoNode ELSE n
    /\ hover' # hover
    /\ frame' = [frame EXCEPT !.visits = <<>>]
    /\ UNCHANGED <<variant, loading, books, base, tab, chip, graph, facets, call,
                   engineVars, tap, sideVars>>

\* Layouts of the four nodes of EngineRecords (book 1, author A, book 2,
\* author B): anchors that fall into one cell, into different cells, and a
\* node without a position.
Layouts ==
    { <<At(40, 0), At(40, 0), At(36, 0), At(36, 0)>>,
      <<At(40, 0), At(0, 40), At(-40, 0), At(0, -40)>>,
      <<At(0, 0), NoPosition, At(40, 0), At(44, 0)>> }

\* Zoom scales below, at and above LABEL.minScaleToShow.
Scales == {100, 105, 200}

\* The revisions whose drawNode is modelled.
LabelRevisions == {"part_001", "part_000"}

InitLabels == Init /\ variant \in LabelRevisions

NextLabels ==
    \/ SetBooksRender(EngineLists)
    \/ onRenderFramePre
    \/ \E k \in 1..4 : nodeCanvasObject(k)
    \/ \E layout \in Layouts : onEngineTick(layout)
    \/ \E k \in Scales : onZoom(k)
    \/ \E n \in DragNodes \cup {NoNode} : handleHover(n)

SpecLabels == InitLabels /\ [][NextLabels]_vars

\* ------------------------------------------------------------------ C16
\* C16: every node visited in the frame whose position is known and that
\* is hovered or of type book has its label drawn.
C16_BookAndHoveredLabelled ==
    \A j \in 1..Len(frame.visits) :
        LET v == frame.visits[j]
        IN  (v.known /\ (v.hovered \/ v.type = "book")) => v.labelled

\* ------------------------------------------------------------------ C17
\* The visit is of a node that is neither hovered nor a book.
Plain(v) == ~v.hovered /\ v.type # "book"

\* An earlier visit of the frame drew the label of a plain node in the cell.
ClaimedBefore(j) ==
    \E i \in 1..(j - 1) :
        /\ Plain(frame.visits[i])
        /\ frame.visits[i].labelled
        /\ frame.visits[i].cell = frame.visits[j].cell

\* C17: in part_001 the label of a node that is neither hovered nor a book
\* and whose position is known is drawn exactly when the zoom scale is at
\* least the threshold and no earlier visit of the same frame claimed its
\* cell (claims of earlier frames do not count); so no two such labels of
\* one frame share a cell.
C17_PlainLabelsOnePerCell ==
    variant = "part_001" =>
        /\ \A j \in 1..Len(frame.visits) :
              (Plain(frame.visits[j]) /\ frame.visits[j].known) =>
                  (frame.visits[j].labelled <=>
                      /\ frame.scale >= CONFIG(variant).LABEL.minScaleToShow
                      /\ ~ClaimedBefore(j))
        /\ \A i, j \in 1..Len(frame.visits) :
              (/\ i # j
               /\ Plain(frame.visits[i]) /\ Plain(frame.visits[j])
               /\ frame.visits[i].labelled /\ frame.visits[j].labelled)
                  => frame.visits[i].cell # frame.visits[j].cell

\* A frame in which a plain label is drawn in a cell and a later plain
\* label of the same cell is suppressed.
C17_Witness ==
    /\ variant = "part_001"
    /\ frame.scale >= CONFIG(variant).LABEL.minScaleToShow
    /\ \E i, j \in 1..Len(frame.visits) :
          /\ i < j
          /\ Plain(frame.visits[i]) /\ Plain(frame.visits[j])
          /\ frame.visits[i].labelled /\ ~frame.visits[j].labelled
          /\ frame.visits[j].known
          /\ frame.visits[i].cell = frame.visits[j].cell

\* -------------------------------------------------------------- the taps
MaxClock == 1000

\* The window of the second tap in milliseconds: 600, and 700 in part_000.
TapWindowOf(v) == IF v = "part_000" THEN 700 ELSE 600

NoLastTap == [id |-> NoNode, ts |-> 0]

\* Time passes between two events.
Elapse(d) ==
    /\ tap.now + d <= MaxClock
    /\ tap' = [tap EXCEPT !.now = tap.now + d]
    /\ UNCHANGED <<variant, loading, books, base, tab, chip, graph, facets, call,
                   engineVars, hover, frame, sideVars>>

\* handleClick(node) for the k-th node of the graph, which the engine
\* reports with its position; Date.now() is tap.now.
handleClick(k) ==
    /\ engine.mounted
    /\ k \in 1..Len(graph.nodes)
    /\ LET node == graph.nodes[k]
           now == tap.now
           click == [kind |-> "tap", id |-> node.id, type |-> node.type, ts |-> now,
                     navigated |-> FALSE]
       IN  IF node.type = "book" /\ Truthy(node.bookId)
           THEN IF tap.lastTap.id = node.id /\ now - tap.lastTap.ts < TapWindowOf(variant)
                THEN /\ tap' = [tap EXCEPT !.lastTap = NoLastTap,
                                           !.route = <<"/book/">> \o node.bookId,
                                           !.prev = tap.last,
                                           !.last = [click EXCEPT !.navigated = TRUE]]
                     /\ hover' = hover
                ELSE /\ tap' = [tap EXCEPT !.lastTap = [id |-> node.id, ts |-> now],
                                           !.prev = tap.last,
                                           !.last = click]
                     /\ hover' = node.id
           ELSE /\ tap' = [tap EXCEPT !.lastTap = NoLastTap,
                                      !.prev = tap.last,
                                      !.last = click]
                /\ hover' = NoNode
    /\ UNCHANGED <<variant, loading, books, base, tab, chip, graph, facets, call,
                   engineVars, frame, sideVars>>

\* clearHover, on a click or a right-click of the background.
onBackgroundClick ==
    /\ engine.mounted
    /\ hover' = NoNode
    /\ tap' = [tap EXCEPT !.lastTap = NoLastTap,
                          !.prev = tap.last,
                          !.last = [NoClick EXCEPT !.kind = "clear", !.ts = tap.now]]
    /\ UNCHANGED <<variant, loading, books, base, tab, chip, graph, facets, call,
                   engineVars, frame, sideVars>>

\* A right-click of a node: clearHover in part_001, setHover(null) alone in
\* part_000.
onNodeRightClick ==
    /\ engine.mounted
    /\ graph.nodes # <<>>
    /\ hover' = NoNode
    /\ tap' = [tap EXCEPT !.lastTap = IF variant = "part_000" THEN tap.lastTap ELSE NoLastTap,
                          !.prev = tap.last,
                          !.last = [NoClick EXCEPT !.kind = "clear", !.ts = tap.now]]
    /\ UNCHANGED <<variant, loading, books, base, tab, chip, graph, facets, call,
                   engineVars, frame, sideVars>>

\* The pauses between two events: twice the first stays inside 600 ms,
\* first and second together fall between 600 ms and 700 ms.
Pauses == {300, 350}

\* The revisions whose handleClick is modelled.
TapRevisions == {"part_001", "part_000"}

InitTap == Init /\ variant \in TapRevisions

NextTap ==
    \/ SetBooksRender(EngineLists)
    \/ \E d \in Pauses : Elapse(d)
    \/ \E k \in 1..3 : handleClick(k)
    \/ onBackgroundClick
    \/ onNodeRightClick

SpecTap == InitTap /\ [][NextTap]_vars

\* ------------------------------------------------------------------ C18
\* The tap window the page promises, in milliseconds.
TapWindow == 600

\* The click before the latest one was a recorded tap on the same node
\* less than the tap window earlier.
SecondTap ==
    /\ tap.prev.kind = "tap"
    /\ tap.prev.id = tap.last.id
    /\ ~tap.prev.navigated
    /\ tap.last.ts - tap.prev.ts < TapWindow

\* C18: a tap on a book node navigates exactly when the click before it
\* was a recorded tap on the same node less than 600 ms earlier; a first
\* tap shows the preview and records the tap, a navigating tap resets the
\* record.
C18_DoubleTapNavigates ==
    (tap.last.kind = "tap" /\ tap.last.type = "book") =>
        /\ tap.last.navigated <=> SecondTap
        /\ ~tap.last.navigated =>
              /\ hover = tap.last.id
              /\ tap.lastTap = [id |-> tap.last.id, ts |-> tap.last.ts]
        /\ tap.last.navigated => tap.lastTap = NoLastTap

\* ------------------------------------------------------- the ring ratios
\* The types ringRatio is asked about: those of the graph and one the
\* table does not hold.
RingTypes == NodeTypes \cup {"unknown"}

\* ringRatio(type) is evaluated under tab t.
CallRingRatio ==
    /\ \E t \in TabVals, type \in RingTypes :
          call' = [fn |-> "ringRatio", arg |-> <<t, type>>,
                   result |-> <<ringRatioOf(variant, t, type)>>]
    /\ UNCHANGED <<variant, loading, books, base, tab, chip, graph, facets,
                   engineVars, viewVars, sideVars>>

NextRing == CallRingRatio

SpecRing == Init /\ [][NextRing]_vars

\* ------------------------------------------------------------------ C25
\* The per-type table of the unfiltered case, in hundredths.
RingTable ==
    [book |-> 78, author |-> 95, translator |-> 91, category |-> 62,
     subject |-> 70, genre |-> 54, level |-> 44, division |-> 85]

\* The types whose ring lies inside the ring of the books.
InsideBooks ==
    {type \in TypeSet : ringRatioOf(variant, ALL, type) < ringRatioOf(variant, ALL, "book")}

\* The ratio of the call follows the table with tab = ALL and the three
\* bands with any other tab.
RingRatioAsDescribed ==
    (call.fn = "ringRatio" /\ variant = "part_001") =>
        LET t == call.arg[1]
            type == call.arg[2]
            ratio == call.result[1]
        IN  /\ t = ALL => ratio = (IF type \in NodeTypes THEN RingTable[type] ELSE 85)
            /\ t # ALL => ratio = (IF type = "book" THEN 70
                                   ELSE IF type = t THEN 72 ELSE 74)

\* C25 as stated: the ratio is the table entry with tab = ALL and one of
\* three constants otherwise, and exactly one type of the table has a
\* smaller ratio than book.
C25_RingRatio_AsStated ==
    /\ RingRatioAsDescribed
    /\ (call.fn = "ringRatio" /\ variant = "part_001") => Cardinality(InsideBooks) = 1

\* C25 amended: the same, with exactly four types of the table (category,
\* subject, genre, level) having a smaller ratio than book.
C25_RingRatio ==
    /\ RingRatioAsDescribed
    /\ (call.fn = "ringRatio" /\ variant = "part_001") =>
          InsideBooks = {"category", "subject", "genre", "level"}

\* The ratio of the selected tab's type under a filter tab.
C25_Witness ==
    /\ variant = "part_001"
    /\ call.fn = "ringRatio"
    /\ call.arg = <<"author", "author">>
    /\ call.result = <<72>>

\* ------------------------------------------------------ repeated tokens
\* Multi-valued fields that list the token a once, twice and three times,
\* with other tokens and empty stretches between.
RepeatFields ==
    { <<"a">>, <<"a", ",", "a">>, <<"a", ",", "b", "/", " ", "a">>,
      <<"a", "/", "a", "|", "a">>, <<" ", "a", " ", ",", ",", "a", " ">> }

RepeatRecords ==
    { Rec(id, <<"T">>, Absent, Absent, Absent, Absent, Absent, f, g, Absent) :
        id \in {<<"1">>, <<"2">>}, f \in RepeatFields, g \in {Absent, <<"a">>} }

RepeatLists == UNION {[1..n -> RepeatRecords] : n \in 0..MaxBooks}

NextRepeat ==
    \/ SetBooks(RepeatLists)
    \/ Rebuild

SpecRepeat == Init /\ [][NextRepeat]_vars

\* ------------------------------------------------------------------ C26
\* The token of s that starts at i is v.
TokenAt(s, i, v) ==
    \E j \in i..Len(s) :
        /\ v = SubSeq(s, i, j)
        /\ s[j] # " "
        /\ \A n \in i..j : ~IsSep(s[n])
        /\ \A m \in (j + 1)..Len(s) :
              (\A n \in (j + 1)..m : ~IsSep(s[n])) => s[m] = " "

\* How many times the field s lists the token v.
TokenCount(s, v) == Cardinality({i \in TokenStarts(s) : TokenAt(s, i, v)})

\* C26: a record that lists a token k times in a multi-valued field adds
\* k edges from its book to the node of the token, and the graph holds one
\* node for the token.
C26_RepeatedTokenEdges ==
    \A k \in 1..Len(books) :
        LET b     == books[k]
            after == GraphAfter(k)
            es    == SubSeq(after.links, Len(GraphAfter(k - 1).links) + 1, Len(after.links))
        IN  Accepts(variant, b) =>
            \A t \in MultiTypes : \A v \in Candidates(b, t) :
                LET n == TokenCount(FieldOf(b, t), v)
                    x == << <<"book", ":">> \o b.id, <<t, ":">> \o v, t >>
                IN  n > 0 =>
                    /\ Cardinality({e \in 1..Len(es) : Triple(es[e]) = x}) = n
                    /\ Cardinality(NodesWithId(after, x[2])) = 1

\* A record that lists the token a three times: three identical edges.
C26_Witness ==
    /\ Len(books) = 1
    /\ books[1].category = <<"a", "/", "a", "|", "a">>
    /\ EdgeCount(base, << <<"book", ":", "1">>, <<"category", ":", "a">>, "category" >>) = 3
    /\ Cardinality(NodesWithId(base, <<"category", ":", "a">>)) = 1

\* ------------------------------------------------------------------ C27
\* How many filtered edges end at the node.
Degree(g, id) ==
    Cardinality({k \in 1..Len(g.links) : id \in {Triple(g.links[k])[1], Triple(g.links[k])[2]}})

\* C27: under every tab other than ALL and every chip, each node of the
\* filtered graph has at least one incident edge of the filtered graph, and
\* a chip value that no book carries gives the empty graph.
C27_NoIsolatedNode ==
    tab # ALL =>
        /\ \A k \in 1..Len(graph.nodes) : Degree(graph, graph.nodes[k].id) >= 1
        /\ (Truthy(chip) /\ NoBookCarries(tab, chip)) => graph = EmptyGraph

\* A tab without chip under which the books that lack the attribute are
\* left out and the others are kept with their edges.
C27_Witness ==
    /\ tab # ALL
    /\ chip = Absent
    /\ graph.nodes # <<>>
    /\ Len(graph.nodes) < Len(base.nodes)
    /\ \E k \in 1..Len(base.nodes) :
          base.nodes[k].type = "book" /\ base.nodes[k].id \notin NodeIds(graph)

\* ------------------------------------------------------------------ C28
FacetSetOf(t) == {facets[t][k] : k \in 1..Len(facets[t])}

\* The labels of the nodes of type t of the built graph.
LabelsOf(t) ==
    {base.nodes[k].label : k \in {j \in 1..Len(base.nodes) : base.nodes[j].type = t}}

\* The chip v of tab t names a node that an edge of type t joins to a book.
ChipConnected(t, v) ==
    \E k \in 1..Len(base.links) :
        LET x == Triple(base.links[k])
        IN  /\ x[2] = <<t, ":">> \o v
            /\ x[3] = t
            /\ \E n \in NodesWithId(base, x[1]) : base.nodes[n].type = "book"

\* C28: for a list of records that all have an id and a title, the facet
\* values of every type are the labels of the nodes of that type, and every
\* facet value names a node connected to a book.
C28_FacetsAreNodeLabels ==
    (\A n \in 1..Len(books) : Truthy(books[n].id) /\ Truthy(books[n].title)) =>
        \A t \in TypeSet :
            /\ FacetSetOf(t) = LabelsOf(t)
            /\ \A v \in FacetSetOf(t) : ChipConnected(t, v)

\* A record whose translator is empty beside the other key: the value of
\* the other key is both a facet value and a node label.
C28_Witness ==
    /\ Len(books) = 1
    /\ books[1].translator = <<>>
    /\ books[1].yeokja = <<"C">>
    /\ variant = "part_001"
    /\ FacetSetOf("translator") = {<<"C">>}
    /\ LabelsOf("translator") = {<<"C">>}

\* ------------------------------------------------------------------ C29
\* Every node of the graph has been visited in the frame.
FrameComplete ==
    /\ frame.phase = "idle"
    /\ graph.nodes # <<>>
    /\ Len(frame.visits) = Len(graph.nodes)

\* The visits of nodes with a position that are neither hovered nor books.
PlainVisits == {j \in 1..Len(frame.visits) : Plain(frame.visits[j]) /\ frame.visits[j].known}

\* The cells the frame has to claim whatever the order of the visits: the
\* cells of the plain nodes once the scale reaches the threshold.
CellsToClaim ==
    IF frame.scale >= CONFIG(variant).LABEL.minScaleToShow
    THEN {frame.visits[j].cell : j \in PlainVisits}
    ELSE {}

\* The visits of hovered nodes and of books that have a position.
ExemptVisits ==
    {j \in 1..Len(frame.visits) : ~Plain(frame.visits[j]) /\ frame.visits[j].known}

\* C29: in part_001, at the end of a frame the set of claimed cells and the
\* number of labels drawn are fixed by the positions, the hover state and
\* the scale, whatever the order of the visits.
C29_OrderIndependent ==
    (variant = "part_001" /\ FrameComplete) =>
        /\ frame.bins = CellsToClaim
        /\ Cardinality({j \in 1..Len(frame.visits) : frame.visits[j].labelled})
              = Cardinality(ExemptVisits) + Cardinality(CellsToClaim)

\* A complete frame visited against the order of the node list: the later
\* of two plain nodes of one cell is visited first and wins the cell.
C29_Witness ==
    /\ variant = "part_001"
    /\ FrameComplete
    /\ \E i, j \in 1..Len(frame.visits) :
          /\ i < j
          /\ frame.visits[i].id = MakeId("author", <<"B">>)
          /\ frame.visits[j].id = MakeId("author", <<"A">>)
          /\ frame.visits[i].labelled /\ ~frame.visits[j].labelled
          /\ frame.visits[i].cell = frame.visits[j].cell


\* ------------------------------------------------ the viewport timeouts
\* The timeouts of this section are those of part_001 (lines 951-1079), of
\* the first copy of the page in pages/map.js (lines 712-796) and of
\* part_000 (lines 566-619, 827-834).
MaxPending == 2

\* The dependency list of the auto-fit effect.
FitDeps(v, w) ==
    IF v = "part_000"
    THEN <<w.width, w.height, w.nodeCount, w.linkCount, w.tab, w.chip>>
    ELSE <<w.width, w.height, w.nodeCount, w.tab, w.chip>>

\* The guard of the force effect: !graphRef.current || !width || !height.
ForceGuard(w) == w.mountable /\ w.width # 0 /\ w.height # 0

\* The guard of the auto-fit effect, which part_001 and map.js extend by
\* the node count.
FitGuard(v, w) == ForceGuard(w) /\ (v = "part_000" \/ w.nodeCount # 0)

\* What a closure set in view w holds.
Closure(by, w) ==
    [by |-> by, changed |-> FALSE, width |-> w.width, height |-> w.height,
     tab |-> w.tab, chip |-> w.chip]

\* The viewport or the selection differs between two renders.
Moved(old, new) ==
    <<old.width, old.height, old.tab, old.chip>> # <<new.width, new.height, new.tab, new.chip>>

RECURSIVE Outdate(_)
Outdate(ts) ==
    IF ts = <<>> THEN <<>>
    ELSE <<[Head(ts) EXCEPT !.changed = TRUE]>> \o Outdate(Tail(ts))

RECURSIVE Keep(_, _)
Keep(ts, by) ==
    IF ts = <<>> THEN <<>>
    ELSE (IF Head(ts).by = by THEN <<Head(ts)>> ELSE <<>>) \o Keep(Tail(ts), by)

\* The timeouts of the force effect after a render: part_001 clears the
\* one it set (return () => clearTimeout(t)) and sets the next one; map.js
\* returns no cleanup and sets one more; part_000 sets none.
ForcesAfter(old, new) ==
    LET left == IF Moved(old, new) THEN Outdate(later.forces) ELSE later.forces
    IN  IF ForceDeps(variant, old) = ForceDeps(variant, new) \/ variant = "part_000"
        THEN left
        ELSE IF variant = "part_001"
        THEN IF ForceGuard(new) THEN <<Closure("forces", new)>> ELSE <<>>
        ELSE IF ForceGuard(new) THEN Append(left, Closure("forces", new)) ELSE left

\* The timeouts of the auto-fit after a render: the effect clears its own
\* and sets the next one; those of the engine-stop handler stay.
FitsAfter(old, new) ==
    LET left == IF Moved(old, new) THEN Outdate(later.fits) ELSE later.fits
    IN  IF FitDeps(variant, old) = FitDeps(variant, new)
        THEN left
        ELSE Keep(left, "stop")
             \o (IF FitGuard(variant, new) THEN <<Closure("effect", new)>> ELSE <<>>)

\* The effects of one render on the timeouts; part_000 registers the
\* radial and collide forces in the effect itself.
ViewEffects(old, new) ==
    LET now == /\ variant = "part_000"
               /\ ForceDeps(variant, old) # ForceDeps(variant, new)
               /\ ForceGuard(new)
    IN  /\ Len(ForcesAfter(old, new)) <= MaxPending
        /\ engine' = Committed(engine, new)
        /\ later' = [forces |-> ForcesAfter(old, new),
                     fits |-> FitsAfter(old, new),
                     fired |-> IF now THEN Closure("forces", new) ELSE NoFired]
        /\ UNCHANGED <<call, timers, drag, log, viewVars, load>>

\* The data load with the render it causes.
SetBooksView(lists) ==
    /\ LoadBooks(lists)
    /\ size' = size
    /\ ViewEffects(OldView, NewView)

\* setTab with the render it causes.
changeTabView(t) ==
    /\ ~loading
    /\ SelectTab(t)
    /\ size' = size
    /\ ViewEffects(OldView, NewView)

\* setChip with the render it causes.
changeChipView(v) ==
    /\ ~loading
    /\ ToggleChip(v)
    /\ size' = size
    /\ ViewEffects(OldView, NewView)

\* updateSize of useContainerSize: setSize when the rounded width or
\* height differs, and the render it causes.
updateSize(sz) ==
    /\ sz # size
    /\ size' = sz
    /\ UNCHANGED <<variant, loading, books, base, tab, chip, graph, facets>>
    /\ ViewEffects(OldView, NewView)

\* The oldest timeout of the force effect fires.
setupForces ==
    /\ later.forces # <<>>
    /\ later' = [later EXCEPT !.forces = Tail(later.forces), !.fired = Head(later.forces)]
    /\ UNCHANGED <<variant, loading, books, base, tab, chip, graph, facets, call,
                   engineVars, viewVars, load>>

\* The timeout of the auto-fit effect fires: zoomToFit.
autoFit ==
    /\ Keep(later.fits, "effect") # <<>>
    /\ later' = [later EXCEPT !.fits = Keep(later.fits, "stop"),
                              !.fired = Keep(later.fits, "effect")[1]]
    /\ UNCHANGED <<variant, loading, books, base, tab, chip, graph, facets, call,
                   engineVars, viewVars, load>>

\* The engine reports that the simulation has stopped: handleEngineStop of
\* map.js and onEngineStop of part_000 set a timeout for zoomToFit;
\* part_001 passes no onEngineStop.  The engine stops once per cooldown,
\* which outlasts the delay, so the previous such timeout has fired.
onEngineStop ==
    /\ engine.mounted
    /\ variant # "part_001"
    /\ Keep(later.fits, "stop") = <<>>
    /\ later' = [later EXCEPT !.fits = Append(later.fits, Closure("stop", OldView)),
                              !.fired = NoFired]
    /\ UNCHANGED <<variant, loading, books, base, tab, chip, graph, facets, call,
                   engineVars, viewVars, load>>

\* The oldest timeout of the engine-stop handler fires: zoomToFit.
finalFit ==
    /\ Keep(later.fits, "stop") # <<>>
    /\ later' = [later EXCEPT !.fits = Keep(later.fits, "effect")
                                         \o Tail(Keep(later.fits, "stop")),
                              !.fired = Keep(later.fits, "stop")[1]]
    /\ UNCHANGED <<variant, loading, books, base, tab, chip, graph, facets, call,
                   engineVars, viewVars, load>>

\* One book with its author, two tabs, one chip and three sizes.
ViewLists == { <<EngineRecords[1]>> }

ViewTabs == {ALL, "author"}

ViewChips == {<<"A">>}

ViewSizes ==
    { [width |-> 0, height |-> 0], [width |-> 400, height |-> 400],
      [width |-> 800, height |-> 600] }

NextView ==
    \/ SetBooksView(ViewLists)
    \/ \E t \in ViewTabs : changeTabView(t)
    \/ \E v \in ViewChips : changeChipView(v)
    \/ \E sz \in ViewSizes : updateSize(sz)
    \/ setupForces
    \/ autoFit
    \/ onEngineStop
    \/ finalFit

SpecView == Init /\ [][NextView]_vars

\* ------------------------------------------------------------------ C21
\* The revisions whose force effect sets a timeout.
BurstRevisions == {"part_001", "map_js"}

\* C21: when a timeout of the force effect fires, the viewport has not
\* changed since it was set, the constraints it applies are those of the
\* current width and height, and no other such timeout is left to fire:
\* a burst of size changes ends in one application, after the last change.
C21_BurstAppliesOnce ==
    (variant \in BurstRevisions /\ later.fired.by = "forces") =>
        /\ ~later.fired.changed
        /\ later.fired.width = size.width /\ later.fired.height = size.height
        /\ later.forces = <<>>

\* ------------------------------------------------------------------ C24
\* C24: at most one auto-fit timeout is pending, and the one that fires
\* has seen no change of the viewport or of the selection since it was
\* set: it was set under the current width, height, tab and chip.
C24_AutoFitCancelled ==
    /\ Len(later.fits) <= 1
    /\ later.fired.by \in {"effect", "stop"} =>
          /\ ~later.fired.changed
          /\ <<later.fired.width, later.fired.height, later.fired.tab, later.fired.chip>>
                = <<size.width, size.height, tab, chip>>


\* --------------------------------------------------------- the data load
\* The data load of part_001 (lines 569-593) and fetchBooks of the first
\* copy of the page in pages/map.js (lines 387-447).
LoadRevisions == {"part_001", "map_js"}

InitLoad == Init /\ variant \in LoadRevisions

\* The fetches whose controller has not been aborted and that have not
\* settled: the requests in flight.
Live == {f \in load.flights : ~f.aborted}

\* abortControllerRef.current.abort(), ac.abort(): the controller is that
\* of the fetch started last.
Abort(fs) == {[f EXCEPT !.aborted = (f.aborted \/ f.id = load.attempts)] : f \in fs}

\* React drops the state updates of a component that is unmounted.
Shown == load.phase = "mounted"

\* fetchBooks(retryCount) up to its await: abort what the ref holds, a new
\* controller, setError(""), setLoading(true), fetch(...).
StartFetch(n, timersLeft) ==
    /\ load' = [load EXCEPT
                  !.phase = IF load.phase = "created" THEN "mounted" ELSE load.phase,
                  !.flights = Abort(load.flights)
                                \cup {[id |-> load.attempts + 1, retryCount |-> n,
                                       aborted |-> FALSE]},
                  !.retries = timersLeft,
                  !.attempts = load.attempts + 1,
                  !.error = IF load.phase = "torn" THEN load.error ELSE "",
                  !.lateStarts = load.lateStarts + (IF load.phase = "torn" THEN 1 ELSE 0)]
    /\ loading' = IF load.phase = "torn" THEN loading ELSE TRUE
    /\ UNCHANGED <<variant, books, base, tab, chip, graph, facets, call,
                   engineVars, viewVars, later>>

\* The effect of the first commit starts the load.
mount ==
    /\ load.phase = "created"
    /\ StartFetch(0, load.retries)

\* The response is a JSON array: setBooks(...), then finally
\* setLoading(false), and the render recomputes the memoised graphs.
resolve(lists) ==
    \E f \in Live : \E list \in lists :
        /\ load' = [load EXCEPT !.flights = load.flights \ {f},
                                !.booksSet = (load.booksSet \/ Shown)]
        /\ IF Shown
           THEN /\ books' = list
                /\ base' = buildGraph(variant, list)
                /\ facets' = extractFacetList(variant, list)
                /\ graph' = filter(variant, base', tab, chip)
                /\ loading' = FALSE
           ELSE UNCHANGED <<books, base, facets, graph, loading>>
        /\ UNCHANGED <<variant, tab, chip, call, engineVars, viewVars, later>>

\* The catch of fetchBooks with three retries instead of two.
rejectThreeRetries ==
    \E f \in Live :
        LET again == variant = "map_js" /\ f.retryCount < 3
        IN  /\ load' = [load EXCEPT
                          !.flights = load.flights \ {f},
                          !.retries = IF again
                                      THEN load.retries \cup {f.retryCount + 1}
                                      ELSE load.retries,
                          !.waits = IF again
                                    THEN Append(load.waits, 1000 * (f.retryCount + 1))
                                    ELSE load.waits,
                          !.error = IF again \/ ~Shown THEN load.error ELSE "message"]
            /\ loading' = IF Shown THEN FALSE ELSE loading
            /\ UNCHANGED <<variant, books, base, tab, chip, graph, facets, call,
                           engineVars, viewVars, later>>

\* The fetch fails (network error, !response.ok, a body that is no JSON
\* or, in map.js, no array).  map.js: while retryCount < 2 the catch sets
\* the retry timeout of 1000 * (retryCount + 1) ms and returns, otherwise
\* it sets the error; its finally runs setLoading(false) on both paths.
\* part_001: setErr(message), then setLoading(false).
reject ==
    \E f \in Live :
        LET again == variant = "map_js" /\ f.retryCount < 2
        IN  /\ load' = [load EXCEPT
                          !.flights = load.flights \ {f},
                          !.retries = IF again
                                      THEN load.retries \cup {f.retryCount + 1}
                                      ELSE load.retries,
                          !.waits = IF again
                                    THEN Append(load.waits, 1000 * (f.retryCount + 1))
                                    ELSE load.waits,
                          !.error = IF again \/ ~Shown THEN load.error ELSE "message"]
            /\ loading' = IF Shown THEN FALSE ELSE loading
            /\ UNCHANGED <<variant, books, base, tab, chip, graph, facets, call,
                           engineVars, viewVars, later>>

\* An aborted fetch rejects with AbortError: the catch returns (part_001:
\* sets no error), and finally runs setLoading(false).
rejectAborted ==
    \E f \in load.flights \ Live :
        /\ load' = [load EXCEPT !.flights = load.flights \ {f}]
        /\ loading' = IF Shown THEN FALSE ELSE loading
        /\ UNCHANGED <<variant, books, base, tab, chip, graph, facets, call,
                       engineVars, viewVars, later>>

\* The cleanup of the effect when the component unmounts: abort().
teardown ==
    /\ load.phase = "mounted"
    /\ load' = [load EXCEPT !.phase = "torn", !.flights = Abort(load.flights)]
    /\ UNCHANGED <<variant, loading, books, base, tab, chip, graph, facets, call,
                   engineVars, viewVars, later>>

\* A retry timeout fires: fetchBooks(retryCount + 1).
retry ==
    \E n \in load.retries : StartFetch(n, load.retries \ {n})

\* A click on a tab of the mounted page.
handleTabChange(t) == Shown /\ changeTab(t)

\* A click on a chip of the mounted page.
handleChipChange(v) == Shown /\ ~loading /\ changeChip(v)

\* The responses: no record, one book, two books.
LoadLists == EngineLists

NextLoad ==
    \/ mount
    \/ resolve(LoadLists)
    \/ reject
    \/ rejectAborted
    \/ teardown
    \/ retry
    \/ \E t \in ViewTabs : handleTabChange(t)
    \/ \E v \in ViewChips : handleChipChange(v)

SpecLoad == InitLoad /\ [][NextLoad]_vars

\* Every fetch settles and every timeout fires; a component need not be
\* unmounted.
SpecLoadFair ==
    /\ SpecLoad
    /\ WF_vars(mount)
    /\ WF_vars(resolve(LoadLists) \/ reject \/ rejectAborted)
    /\ WF_vars(retry)

\* ------------------------------------------------------------------ C22
\* C22: at most one fetch is in flight, and once the component is torn
\* down no fetch is in flight and none has been started since.
C22_OneFetchNoneAfterTeardown ==
    /\ Cardinality(Live) <= 1
    /\ load.phase = "torn" => Live = {} /\ load.lateStarts = 0


\* ------------------------------------------------------------------ C23
\* The load is over: no fetch is unsettled and no retry timeout is left.
LoadOver == load.phase # "created" /\ load.flights = {} /\ load.retries = {}

\* At most three fetches, the retries after 1000 ms and 2000 ms, and the
\* error only after the third fetch.
ThreeAttempts ==
    /\ load.attempts <= 3
    /\ load.waits \in {<<>>, <<1000>>, <<1000, 2000>>}
    /\ load.error # "" => load.attempts = 3 /\ load.waits = <<1000, 2000>>

\* C23 as stated: in map.js a load makes at most three fetches, waits
\* 1000 ms and 2000 ms before the retries, sets the error only when the
\* third fetch has failed, and is never over with neither the book list
\* nor the error set.
C23_LoadEnds_AsStated ==
    variant = "map_js" =>
        /\ ThreeAttempts
        /\ LoadOver => load.booksSet \/ load.error # ""

\* C23, amended: in map.js a load makes at most three fetches, waits
\* 1000 ms and 2000 ms before the retries, sets the error only when the
\* third fetch has failed, and, unless the component is torn down first,
\* comes to an end, with the book list or the error set.
C23_LoadEnds ==
    /\ [](variant = "map_js" =>
             /\ ThreeAttempts
             /\ (LoadOver /\ Shown) => load.booksSet \/ load.error # "")
    /\ <>(variant = "map_js" => LoadOver \/ load.phase = "torn")

\* The third fetch of a mounted page has failed.
C23_Witness ==
    /\ variant = "map_js"
    /\ Shown /\ LoadOver
    /\ load.attempts = 3
    /\ load.waits = <<1000, 2000>>
    /\ load.error = "message"
    /\ ~load.booksSet

\* ------------------------------------------------------------------ C30
\* The condition of the empty state: !loading && !error &&
\* filteredGraph.nodes.length === 0 && isClient.
EmptyShown == Shown /\ ~loading /\ load.error = "" /\ Len(graph.nodes) = 0

\* C30: in map.js, while a fetch of the mounted page is in flight or a
\* retry is scheduled, loading is true and the empty state is not shown.
C30_LoadingUntilLoadEnds ==
    (variant = "map_js" /\ Shown /\ (Live # {} \/ load.retries # {})) =>
        loading /\ ~EmptyShown

====
